---- MODULE Spec2Model ----
(***************************************************************************)
(* A model of the @specmanager/mcp-server gateway: the session registry of *)
(* the HTTP adapter, the single proxy of the stdio adapter, the tool       *)
(* dispatcher with the scope save/restore of list-tasks and list-specs,    *)
(* and the shutdown path (stop, signal handlers, process exit).            *)
(*                                                                         *)
(* Every `await` of the source is a suspension point: the handler's state  *)
(* is kept in a record (calls, dels, stops) and another handler may run    *)
(* before it resumes.  Code between two awaits is one atomic action.       *)
(***************************************************************************)
EXTENDS Integers, Sequences, FiniteSets, TLC

\* ------------------------------------------------------------------ bounds

\* inbound messages (HTTP requests or stdio messages) accepted in one run
MaxReq == 3
\* tool invocations in flight at one time
MaxCalls == 2
\* shutdown triggers (signals, direct stop() calls) in one run
MaxStops == 2
\* inbound messages accepted in one run in which the gateway is shut down
MaxReqShutdown == 2
\* inbound messages accepted in one run in which shutdown is followed to its end
MaxReqLive == 2
\* tool calls one client makes, one after the other, on the backend's tasks
MaxReqTasks == 4
\* list calls with a workingDir in one run
MaxReqByRepo == 2
\* tool calls of one proxy operation in one run over every answer of the backend
MaxReqRequest == 2
\* the working directories looked up in a run
MaxReqParse == 1
\* the list-specs calls of a run
MaxReqSpecs == 1
\* the messages of a run with two sessions
MaxReqPair == 4

\* the messages that arrive while sessions are opened, destroyed and shut down
MaxReqDestroy == 3
\* the messages of a run in which one of two sessions is destroyed under a call
MaxReqOrphan == 4
\* the most specs the backend returns for a project
MaxSpecs == 2
\* the longest remote URL, in pieces
MaxUrlLen == 5

\* ------------------------------------------------------------------ values

\* JavaScript undefined / null, as strings so that they compare with strings
Undef == "undefined"
Null == "null"
\* session identifier 0 stands for a missing mcp-session-id header
NoSid == 0

Projects == {"p1", "p2"}
Tasks == {"t1"}
\* the strings z.string().uuid() accepts
Uuids == Projects \cup Tasks
NotUuid == "not-a-uuid"
WorkDir == "/repo"
Repo == "acme/widgets"

\* session identifiers a client may send; crypto.randomUUID() draws from them
SessionIds == 1..MaxReq

\* ------------------------------------------------------------------ state

VARIABLES
    env,           \* process.env: SPECMANAGER_API_KEY, SPECMANAGER_PROJECT_ID
    mainPc,        \* main() of index.ts: "main" | "constructed" | "failed"
    tasks,         \* the backend's tasks, each with its TaskStatus
    useStdio,      \* options.useStdio
    httpServer,    \* this.httpServer: "none" | "listening" | "closing" | "closed"
    httpCloseCalls,\* calls of this.httpServer.close()
    stdioServer,   \* this.stdioServer: "none" | "connected" | "closed"
    sessions,      \* this.sessions: the Map, as its entries in insertion order
    clients,       \* the TaskApiClient objects; 0 is this.stdioApiClient
    servers,       \* the Server objects made by createServerInstance, by transport
    transports,    \* the StreamableHTTPServerTransport objects
    issued,        \* the session identifiers generated so far, each with the
                   \* proxy and the API key of the POST that initialized it
    destroyed,     \* the session identifiers whose destruction has completed
    calls,         \* tool invocations suspended at an await
    dels,          \* DELETE /mcp handlers suspended at an await
    stops,         \* stop() invocations, with their trigger
    nReq,          \* inbound messages accepted so far
    backend,       \* the requests the last step sent to the backend API
    out,           \* the response the last step sent to a client
    exited,        \* process.exit was called
    exitCode

vars == <<env, mainPc, tasks, useStdio, httpServer, httpCloseCalls, stdioServer, sessions, clients,
          servers, transports, issued, destroyed, calls, dels, stops, nReq, backend, out,
          exited, exitCode>>

\* ------------------------------------------------------------------ TaskApiClient

\* new TaskApiClient(config)
NewClient(apiKey, projectId) == [apiKey |-> apiKey, projectId |-> projectId]

\* TaskApiClient.getProjectId
getProjectId(c) == clients[c].projectId

\* TaskApiClient.setProjectId
setProjectId(cl, c, projectId) == [cl EXCEPT ![c].projectId = projectId]

\* JavaScript truthiness of a string | undefined value
Truthy(v) == v \notin {Undef, Null, ""}

\* `a || b` on such values
OrElse(a, b) == IF Truthy(a) THEN a ELSE b

\* an answer of the backend: its status (0 when fetch itself fails), the way
\* response.json() reads its body ("json": an object, "null": the JSON value
\* null, "unreadable": json() rejects) and the code field of the object
Answer(status, body, code) == [status |-> status, body |-> body, code |-> code]

\* what the backend may answer: 200, or a non-2xx with a status and a code,
\* or a transport-level failure (status 0)
BackendAnswers ==
    { Answer(200, "json", ""),
      Answer(404, "json", "PROJECT_NOT_FOUND"),
      Answer(500, "json", ""),
      Answer(0, "json", "") }

\* a mapping that knows no code of the backend
mapErrorCodeGeneric(apiCode, status) == "API_ERROR"

\* TaskApiClient.mapErrorCode
mapErrorCode(apiCode, status) ==
    IF status = 401 \/ status = 403 THEN "UNAUTHORIZED"
    ELSE IF apiCode = "TASK_NOT_FOUND" THEN "TASK_NOT_FOUND"
    ELSE IF apiCode = "PROJECT_NOT_FOUND" THEN "PROJECT_NOT_FOUND"
    ELSE IF apiCode \in {"INVALID_STATE_TRANSITION", "TASK_ALREADY_IN_PROGRESS",
                         "TASK_NOT_STARTED", "TASK_ALREADY_COMPLETED"}
         THEN "INVALID_STATE_TRANSITION"
    ELSE "API_ERROR"

\* the outcome of TaskApiClient.request: "ok" or the ErrorCode it throws.
\* Whatever is thrown inside its try block that is not an MCPServerError
\* becomes NETWORK_ERROR: a failing fetch, a success body json() cannot read,
\* and the TypeError of reading errorData.message when the error body is null
RequestOutcome(ans) ==
    IF ans.status = 0 THEN "NETWORK_ERROR"
    ELSE IF ans.status = 200
    THEN IF ans.body = "unreadable" THEN "NETWORK_ERROR" ELSE "ok"
    ELSE IF ans.body = "null" THEN "NETWORK_ERROR"
    ELSE IF ans.body = "unreadable" THEN mapErrorCode("API_ERROR", ans.status)
    ELSE mapErrorCode(OrElse(ans.code, "API_ERROR"), ans.status)

\* ------------------------------------------------------------------ tool inputs

ToolNames == {"list-projects", "list-specs", "list-tasks", "get-task",
              "start-task", "complete-task", "report-progress"}
ListTools == {"list-specs", "list-tasks"}

\* the argument structures a client sends with each tool name
ArgsOf(name) ==
    CASE name = "list-projects" ->
           [workingDir : {Undef, WorkDir}]
      [] name = "list-specs" ->
           [projectId : {Undef, NotUuid} \cup Projects, workingDir : {Undef, WorkDir},
            includeCompleted : {Undef, "yes"}]
      [] name = "list-tasks" ->
           [projectId : {Undef, NotUuid} \cup Projects, workingDir : {Undef, WorkDir},
            status : {Undef, "bogus"}, specId : {Undef}]
      [] name \in {"get-task", "start-task"} ->
           [taskId : {Undef, NotUuid} \cup Tasks]
      [] name = "complete-task" ->
           [taskId : Tasks, summary : {"", "done it"}, filesModified : {0, 1}]
      [] name = "report-progress" ->
           [taskId : Tasks, message : {"", "working"}, percent : {-1, 50, 101},
            hasPercent : {TRUE}]
      [] OTHER -> {[workingDir |-> Undef]}

\* z.string().uuid().optional()
OptionalUuid(v) == v = Undef \/ v \in Uuids

\* z.string().uuid()
RequiredUuid(v) == v \in Uuids

\* listProjectsSchema, listSpecsSchema, ... : does schema.parse(args) succeed
SchemaAccepts(name, args) ==
    CASE name = "list-projects" -> TRUE
      [] name = "list-specs" ->
           OptionalUuid(args.projectId)
           /\ args.includeCompleted \in {Undef, "true", "false"}
      [] name = "list-tasks" ->
           OptionalUuid(args.projectId)
           /\ args.status \in {Undef, "pending", "in-progress", "done", "all"}
           /\ OptionalUuid(args.specId)
      [] name \in {"get-task", "start-task"} -> RequiredUuid(args.taskId)
      [] name = "complete-task" ->
           RequiredUuid(args.taskId) /\ args.summary # ""
           /\ args.filesModified >= 1
      [] name = "report-progress" ->
           RequiredUuid(args.taskId) /\ args.message # ""
           /\ (args.hasPercent => (args.percent >= 0 /\ args.percent <= 100))
      [] OTHER -> FALSE

\* one issue of a ZodError for the field `path`, when the field fails its check
Issue(path, ok) == IF ok THEN <<>> ELSE <<[path |-> path, message |-> "Invalid"]>>

\* the issues schema.parse(args) reports, in the order of the schema's fields
Issues(name, args) ==
    CASE name = "list-specs" ->
           Issue("projectId", OptionalUuid(args.projectId))
           \o Issue("includeCompleted", args.includeCompleted \in {Undef, "true", "false"})
      [] name = "list-tasks" ->
           Issue("projectId", OptionalUuid(args.projectId))
           \o Issue("status", args.status \in {Undef, "pending", "in-progress", "done", "all"})
           \o Issue("specId", OptionalUuid(args.specId))
      [] name \in {"get-task", "start-task"} ->
           Issue("taskId", RequiredUuid(args.taskId))
      [] name = "complete-task" ->
           Issue("taskId", RequiredUuid(args.taskId))
           \o Issue("summary", args.summary # "")
           \o Issue("filesModified", args.filesModified >= 1)
      [] name = "report-progress" ->
           Issue("taskId", RequiredUuid(args.taskId))
           \o Issue("message", args.message # "")
           \o Issue("percent", args.hasPercent => (args.percent >= 0 /\ args.percent <= 100))
      [] OTHER -> <<>>

\* ------------------------------------------------------------------ registry

EmptyFn == [x \in {} |-> 0]

\* a lookup that recognizes no session identifier
SessionsHasNone(s, id) == FALSE

\* this.sessions.has(sessionId)
SessionsHas(s, id) == \E i \in 1..Len(s) : s[i].sid = id

\* a lookup that returns the entry registered last
SessionsGetLast(s, id) == s[Len(s)]

\* a lookup that ignores the identifier
SessionsGetFirst(s, id) == s[1]

\* this.sessions.get(sessionId)!
SessionsGet(s, id) == s[CHOOSE i \in 1..Len(s) : s[i].sid = id]

\* a set that stores the entry under no session identifier
SessionsSetUnkeyed(s, id, data) == Append(s, data)

\* this.sessions.set(newSessionId, sessionData): a Map keeps insertion order
SessionsSet(s, id, data) ==
    IF SessionsHas(s, id)
    THEN [i \in 1..Len(s) |-> IF s[i].sid = id THEN [data EXCEPT !.sid = id] ELSE s[i]]
    ELSE Append(s, [data EXCEPT !.sid = id])

\* a delete that removes nothing
SessionsKeep(s, id) == s

\* this.sessions.delete(sessionId)
SessionsDelete(s, id) == SelectSeq(s, LAMBDA e : e.sid # id)

\* an entry that holds the proxy of the first session
SessionDataShared(n) == [sid |-> NoSid, transport |-> n, apiClient |-> 1, server |-> n]

\* sessionData = { transport, apiClient, server }
SessionData(n) == [sid |-> NoSid, transport |-> n, apiClient |-> n, server |-> n]

\* server instances whose call-tool handlers all use the first proxy
createServerInstanceShared(apiClient) == [client |-> 1, closed |-> FALSE]

\* createServerInstance(apiClient): the call-tool handler closes over apiClient
createServerInstance(apiClient) == [client |-> apiClient, closed |-> FALSE]

\* transport.onclose: if (transport.sessionId) this.sessions.delete(transport.sessionId)
OnClose(s, tr, t) ==
    IF tr[t].sessionId # NoSid THEN SessionsDelete(s, tr[t].sessionId) ELSE s

\* sessionIdGenerator: () => crypto.randomUUID(), an identifier never generated
\* before; identifiers are interchangeable, so the least unused one stands for it
sessionIdGenerator ==
    LET unused == SessionIds \ DOMAIN issued
    IN  {id \in unused : \A other \in unused : id <= other}

\* ------------------------------------------------------------------ git remote

\* the pieces a remote URL is made of; the URL is their concatenation
UrlPieces == {"https://github.com/", "http://github.com/", "ssh://", "git@github.com:",
              "/", ".git", "acme", "widgets"}

\* the remote URLs: the value of `url = ` under [remote "origin"], empty when
\* .git/config has none or cannot be read
RemoteUrls == UNION {[1..n -> UrlPieces] : n \in 0..MaxUrlLen}

\* the piece holds no "/": it can be part of a match of [^/]+
NoSlash(piece) == piece \notin {"https://github.com/", "http://github.com/", "ssh://", "/"}

\* the string a sequence of pieces stands for
RECURSIVE Join(_)
Join(pieces) ==
    IF pieces = <<>> THEN "" ELSE Head(pieces) \o Join(Tail(pieces))

\* rest matches ([^/]+\/[^/]+?)(?:\.git)?$ : an owner without "/", one "/", a
\* repository name without "/", up to the end of the URL
MatchesOwnerRepo(rest) ==
    \E i \in 2..(Len(rest) - 1) :
        /\ rest[i] = "/"
        /\ \A j \in (1..Len(rest)) \ {i} : NoSlash(rest[j])

\* the group captured from rest: [^/]+? is lazy, so a final ".git" is left to
\* (?:\.git)? whenever the name before it is not empty
Captured(rest) ==
    LET i == CHOOSE i \in 2..(Len(rest) - 1) : rest[i] = "/"
        last == IF rest[Len(rest)] = ".git" /\ Len(rest) > i + 1
                THEN Len(rest) - 1 ELSE Len(rest)
    IN  Join(SubSeq(rest, 1, last))

\* url.match(re) for re = <one of prefixes> followed by the group above: the
\* expression is not anchored at the start, so the match may begin at any
\* piece; the leftmost one is taken. The group captured, or Null.
UrlMatch(url, prefixes) ==
    LET at == {p \in 1..Len(url) :
                  /\ url[p] \in prefixes
                  /\ MatchesOwnerRepo(SubSeq(url, p + 1, Len(url)))}
    IN  IF at = {} THEN Null
        ELSE LET p == CHOOSE p \in at : \A q \in at : p <= q
             IN  Captured(SubSeq(url, p + 1, Len(url)))

\* parseGitRemoteUrl(url): the HTTPS expression, then the SSH expression, else null
parseGitRemoteUrl(url) ==
    LET httpsMatch == UrlMatch(url, {"https://github.com/", "http://github.com/"})
        sshMatch == UrlMatch(url, {"git@github.com:"})
    IN  IF httpsMatch # Null THEN httpsMatch
        ELSE IF sshMatch # Null THEN sshMatch
        ELSE Null

\* ------------------------------------------------------------------ headers

\* req.headers.authorization, split after its first seven characters. The HTTP
\* parser hands over a field value without the whitespace around it, so a value
\* that starts with "Bearer " goes on with a token, and `Authorization: Bearer `
\* with nothing after it arrives as "Bearer"
NoAuth == [head |-> Undef, tail |-> Undef]
AuthHeaders == {NoAuth, [head |-> "Bearer ", tail |-> "k1"],
                [head |-> "Bearer", tail |-> ""], [head |-> "Basic k", tail |-> "2"]}
XKeyHeaders == {Undef, "", "k2"}

\* an extractApiKey that reads the X-API-Key header first
extractApiKeyXFirst(auth, xkey) ==
    IF xkey # Undef THEN xkey
    ELSE IF auth.head = "Bearer " THEN auth.tail
    ELSE Null

\* an extractApiKey that falls back to a default key
extractApiKeyDefault(auth, xkey) ==
    IF auth.head = "Bearer " THEN auth.tail
    ELSE IF xkey # Undef THEN xkey
    ELSE "k1"

\* extractApiKey(req)
extractApiKey(auth, xkey) ==
    IF auth.head = "Bearer " THEN auth.tail
    ELSE IF xkey # Undef THEN xkey
    ELSE Null

\* ------------------------------------------------------------------ responses

\* the values a handler throws: an MCPServerError with its code, a ZodError with
\* its issues, another Error, or a value that is not an Error
Thrown(type, code, message, issues) ==
    [type |-> type, code |-> code, message |-> message, issues |-> issues]
MCPServerError(code) == Thrown("MCPServerError", code, "message", <<>>)
ZodError(issues) == Thrown("ZodError", "", "", issues)
Error(message) == Thrown("Error", "", message, <<>>)
NonError == Thrown("string", "", "", <<>>)
\* nothing was thrown
NoError == Thrown("none", "", "", <<>>)

Response(method, sid, status, body) ==
    [method |-> method, sid |-> sid, status |-> status, body |-> body,
     isError |-> FALSE, noCred |-> FALSE, registered |-> FALSE, created |-> 0,
     newSid |-> NoSid, transport |-> 0,
     tool |-> "", valid |-> FALSE, client |-> -1, explicit |-> FALSE,
     proj |-> Undef, orig |-> Undef, alone |-> FALSE, scopeAfter |-> Undef,
     thrown |-> NoError, remoteUrl |-> <<>>,
     includeCompleted |-> Undef, specs |-> <<>>, shown |-> <<>>,
     auth |-> NoAuth, xkey |-> Undef]

\* the call-tool handler's return value: content [{type: 'text', text}], isError
ToolResult(method, sid, name, c, text, isError, cl) ==
    [Response(method, sid, 200, text) EXCEPT
        !.isError = isError, !.registered = (method = "POST"), !.tool = name,
        !.client = c, !.scopeAfter = cl[c].projectId]

\* no response was sent by the last step
NoResponse == Response("none", NoSid, 0, "")

\* a step that sends no response and no backend request
Quiet == out' = NoResponse /\ backend' = {}

\* error.issues.map((i) => `- ${i.path.join('.')}: ${i.message}`), each on a line
RECURSIVE IssueLines(_)
IssueLines(issues) ==
    IF issues = <<>> THEN ""
    ELSE "\n- " \o Head(issues).path \o ": " \o Head(issues).message
         \o IssueLines(Tail(issues))

\* a formatter that hides what was thrown
formatErrorOpaque(error) == "An unknown error occurred"

\* formatError(error)
formatError(error) ==
    CASE error.type = "MCPServerError" ->
           "Error [" \o error.code \o "]: " \o error.message
      [] error.type = "ZodError" -> "Validation error:" \o IssueLines(error.issues)
      [] error.type = "Error" -> "Error: " \o error.message
      [] OTHER -> "An unknown error occurred"

\* ------------------------------------------------------------------ tool handlers

\* a request whose path was built before the handler wrote the scope
RequestOfStale(cl, call, op) ==
    [sid |-> call.sid, client |-> call.client,
     apiKey |-> cl[call.client].apiKey, op |-> op,
     project |-> IF op \in {"listTasks", "listSpecs"}
                 THEN clients[call.client].projectId ELSE Undef]

\* a request that carries the credential of the POST that caused it
RequestOfCarried(cl, call, op) ==
    [sid |-> call.sid, client |-> call.client,
     apiKey |-> call.apiKey, op |-> op,
     project |-> IF op \in {"listTasks", "listSpecs"}
                 THEN cl[call.client].projectId ELSE Undef]

\* the request TaskApiClient.request sends for the invocation `call`: the
\* X-API-Key header is this.apiKey, the path holds this.projectId for the list
\* operations
RequestOf(cl, call, op) ==
    [sid |-> call.sid, client |-> call.client,
     apiKey |-> cl[call.client].apiKey, op |-> op,
     project |-> IF op \in {"listTasks", "listSpecs"}
                 THEN cl[call.client].projectId ELSE Undef]

\* the handler handleToolCall selects: handleGetTask, handleStartTask,
\* handleCompleteTask and handleReportProgress have one shape ("task"): one
\* proxy operation, awaited, then a text
HandlerOf(name) ==
    CASE name \in ListTools \cup {"list-projects"} -> name
      [] name \in ToolNames -> "task"
      [] OTHER -> "unknown"

\* an invocation about to run on proxy c; apiKey is the credential the POST
\* that carries it presented (the POST handler's local `apiKey`), undefined on
\* stdin
NewCall(rid, method, sid, apiKey, c, name, args) ==
    [rid |-> rid, method |-> method, sid |-> sid, apiKey |-> apiKey, client |-> c,
     tool |-> HandlerOf(name),
     pc |-> "start",
     projectId |-> IF name \in ListTools THEN args.projectId ELSE Undef,
     orig |-> Undef,
     explicit |-> (name \in ListTools /\ Truthy(args.projectId)),
     includeCompleted |-> IF name = "list-specs" /\ args.includeCompleted = "true"
                          THEN "true" ELSE "false",
     valid |-> (name \in ToolNames /\ SchemaAccepts(name, args)),
     alone |-> \A r \in DOMAIN calls : calls[r].client # c]

\* the invocations in flight once `call` is suspended at an await
Suspended(call) ==
    [r \in (DOMAIN calls \cup {call.rid}) |->
        IF r = call.rid THEN call
        ELSE IF calls[r].client = call.client /\ call.rid \notin DOMAIN calls
             THEN [calls[r] EXCEPT !.alone = FALSE]
             ELSE calls[r]]

\* the invocations in flight once `call` has returned
Returned(call) == [r \in DOMAIN calls \ {call.rid} |-> calls[r]]

\* the text result of `call`, with the proxy's scope when it returned
Result(call, text, isError, cl) ==
    [ToolResult(call.method, call.sid, call.tool, call.client, text, isError, cl)
        EXCEPT !.explicit = call.explicit, !.proj = call.projectId,
               !.orig = call.orig, !.alone = call.alone, !.valid = call.valid]

\* `return text` / `throw error` of a handler that leaves the proxies as cl
Return(call, text, isError, cl) ==
    /\ out' = Result(call, text, isError, cl)
    /\ calls' = Returned(call)
    /\ clients' = cl
    /\ backend' = {}

\* the call-tool handler's catch block: `error` thrown by handleToolCall becomes
\* a text result marked isError
Caught(call, error, cl) ==
    [Result(call, formatError(error), TRUE, cl) EXCEPT !.thrown = error]

\* `throw error` of a handler that leaves the proxies as cl
Throw(call, error, cl) ==
    /\ out' = Caught(call, error, cl)
    /\ calls' = Returned(call)
    /\ clients' = cl
    /\ backend' = {}


\* a restore that is dropped once the session of the proxy is out of the
\* registry, as if destroying the session cancelled the handler
RestoreUnlessDestroyed(cl, c, originalProjectId) ==
    IF c # 0 /\ \A i \in 1..Len(sessions) : sessions[i].apiClient # c
    THEN cl
    ELSE LET cl1 == setProjectId(cl, c, OrElse(originalProjectId, ""))
         IN  IF Truthy(originalProjectId) THEN setProjectId(cl1, c, originalProjectId)
             ELSE cl1

\* the success path of handleListTasks / handleListSpecs after the await:
\* client.setProjectId(originalProjectId || ''), then the finally block
RestoreAfterSuccess(cl, c, originalProjectId) ==
    LET cl1 == setProjectId(cl, c, OrElse(originalProjectId, ""))
    IN  IF Truthy(originalProjectId) THEN setProjectId(cl1, c, originalProjectId) ELSE cl1

\* a handler without the finally block
RestoreNothing(cl, c, originalProjectId) == cl

\* the finally block alone, run when the awaited call throws
RestoreAfterFailure(cl, c, originalProjectId) ==
    IF Truthy(originalProjectId) THEN setProjectId(cl, c, originalProjectId) ELSE cl

\* a proxy operation up to its await of this.request(): listTasks and listSpecs
\* throw NOT_CONFIGURED before any request when this.projectId is not set; every
\* operation calls this.request() once, and request() calls fetch once
Operation(cl, call, op) ==
    IF op \in {"listTasks", "listSpecs"} /\ ~Truthy(cl[call.client].projectId)
    THEN [requests |-> {}, error |-> MCPServerError("NOT_CONFIGURED")]
    ELSE [requests |-> {RequestOf(cl, call, op)}, error |-> NoError]

\* a handler calls a proxy operation and awaits it; an operation that throws
\* before its request ends the handler (through the finally block of the list
\* handlers, the only callers of the guarded operations)
Await(call, pc, op, cl) ==
    LET sent == Operation(cl, call, op)
    IN  IF sent.error # NoError
        THEN Throw(call, sent.error, RestoreAfterFailure(cl, call.client, call.orig))
        ELSE /\ clients' = cl
             /\ backend' = sent.requests
             /\ calls' = Suspended([call EXCEPT !.pc = pc])
             /\ out' = NoResponse

\* a handler that calls the backend whether or not it has a project
ListFromAnyway(call) ==
    Await([call EXCEPT !.orig = getProjectId(call.client)], "list",
          IF call.tool = "list-tasks" THEN "listTasks" ELSE "listSpecs", clients)

\* handleListTasks / handleListSpecs from "If still no projectId" to the await of
\* client.listTasks() / client.listSpecs()
ListFrom(call) ==
    LET c == call.client
        projectId == OrElse(call.projectId, getProjectId(c))
        originalProjectId == getProjectId(c)
        op == IF call.tool = "list-tasks" THEN "listTasks" ELSE "listSpecs"
    IN  IF ~Truthy(projectId)
        THEN Return(call, "No project specified", FALSE, clients)
        ELSE Await([call EXCEPT !.projectId = projectId, !.orig = originalProjectId],
                   "list", op, setProjectId(clients, c, projectId))

\* the operation each remaining tool calls on the proxy
OpOf(name) ==
    CASE name = "list-projects" -> "listProjects"
      [] name = "get-task" -> "getTask"
      [] name = "start-task" -> "startTask"
      [] name = "complete-task" -> "completeTask"
      [] name = "report-progress" -> "reportProgress"
      [] OTHER -> "none"

\* a handler from its first statement to its first await
HandlerStart(call, name, args) ==
    IF call.tool \in ListTools
    THEN IF ~Truthy(args.projectId) /\ Truthy(args.workingDir)
         THEN /\ calls' = Suspended([call EXCEPT !.pc = "git"])
              /\ Quiet
              /\ UNCHANGED clients
         ELSE ListFrom(call)
    ELSE IF call.tool = "list-projects" /\ Truthy(args.workingDir)
         THEN /\ calls' = Suspended([call EXCEPT !.pc = "git"])
              /\ Quiet
              /\ UNCHANGED clients
         ELSE Await(call, "req", OpOf(name), clients)

\* a dispatcher that runs the handler without parsing the arguments
handleToolCallUnchecked(rid, method, sid, apiKey, c, name, args) ==
    HandlerStart(NewCall(rid, method, sid, apiKey, c, name, args), name, args)

\* handleToolCall(apiClient, name, args) inside the call-tool handler's try/catch
handleToolCall(rid, method, sid, apiKey, c, name, args) ==
    LET call == NewCall(rid, method, sid, apiKey, c, name, args)
        invalid(error) ==
            /\ out' = Caught(call, error, clients)
            /\ backend' = {}
            /\ UNCHANGED <<clients, calls>>
    IN  IF name \notin ToolNames THEN invalid(Error("Unknown tool: " \o name))
        ELSE IF ~SchemaAccepts(name, args) THEN invalid(ZodError(Issues(name, args)))
        ELSE HandlerStart(call, name, args)

\* a handler that falls back to the proxy's scope when no repository is found
GitDoneFallingBack(rid, repoFullName) ==
    /\ ~exited
    /\ rid \in DOMAIN calls
    /\ calls[rid].pc = "git"
    /\ LET call == calls[rid]
       IN  IF call.tool = "list-projects"
           THEN Await(call, "req", "listProjects", clients)
           ELSE IF repoFullName = Null
           THEN ListFrom(call)
           ELSE Await(call, "byRepo", "getProjectByRepo", clients)
    /\ UNCHANGED <<env, mainPc, tasks, useStdio, httpServer, httpCloseCalls, stdioServer, sessions, servers,
                   transports, issued, destroyed, dels, stops, nReq, exited, exitCode>>

\* getGitHubRepoFromWorkingDir(input.workingDir) resolves to repoFullName
GitDone(rid, repoFullName) ==
    /\ ~exited
    /\ rid \in DOMAIN calls
    /\ calls[rid].pc = "git"
    /\ LET call == calls[rid]
       IN  IF call.tool = "list-projects"
           THEN Await(call, "req", "listProjects", clients)
           ELSE IF repoFullName = Null
           THEN Return(call, "Could not detect git repository", FALSE, clients)
           ELSE Await(call, "byRepo", "getProjectByRepo", clients)
    /\ UNCHANGED <<env, mainPc, tasks, useStdio, httpServer, httpCloseCalls, stdioServer, sessions, servers,
                   transports, issued, destroyed, dels, stops, nReq, exited, exitCode>>

\* a lookup that takes every failure for an absent project
getProjectByRepoLenient(ans, project) ==
    IF RequestOutcome(ans) = "ok" THEN [value |-> project, error |-> NoError]
    ELSE [value |-> Null, error |-> NoError]

\* TaskApiClient.getProjectByRepo when the backend answers `ans`, with
\* `project` in a 200: the value it returns, or the error it throws
getProjectByRepo(ans, project) ==
    LET outcome == RequestOutcome(ans)
    IN  IF outcome = "ok" THEN [value |-> project, error |-> NoError]
        ELSE IF outcome = "PROJECT_NOT_FOUND" THEN [value |-> Null, error |-> NoError]
        ELSE [value |-> Null, error |-> MCPServerError(outcome)]

\* client.getProjectByRepo(repoFullName) settles: null on PROJECT_NOT_FOUND
ByRepoDone(rid, ans, project) ==
    /\ ~exited
    /\ rid \in DOMAIN calls
    /\ calls[rid].pc = "byRepo"
    /\ LET call == calls[rid]
           found == getProjectByRepo(ans, project)
       IN  IF found.error # NoError THEN Throw(call, found.error, clients)
           ELSE IF found.value = Null
           THEN Return(call, "No project found linked to repository", FALSE, clients)
           ELSE ListFrom([call EXCEPT !.projectId = found.value])
    /\ UNCHANGED <<env, mainPc, tasks, useStdio, httpServer, httpCloseCalls, stdioServer, sessions, servers,
                   transports, issued, destroyed, dels, stops, nReq, exited, exitCode>>

\* client.listTasks() / client.listSpecs() settles
ListDone(rid, ans) ==
    /\ ~exited
    /\ rid \in DOMAIN calls
    /\ calls[rid].pc = "list"
    /\ LET call == calls[rid]
           outcome == RequestOutcome(ans)
       IN  IF outcome = "ok"
           THEN Return(call, "Found", FALSE,
                       RestoreAfterSuccess(clients, call.client, call.orig))
           ELSE Throw(call, MCPServerError(outcome),
                      RestoreAfterFailure(clients, call.client, call.orig))
    /\ UNCHANGED <<env, mainPc, tasks, useStdio, httpServer, httpCloseCalls, stdioServer, sessions, servers,
                   transports, issued, destroyed, dels, stops, nReq, exited, exitCode>>

\* the task counts a spec may have
TaskCounts == [pending : 0..1, inProgress : 0..1, done : 0..1]

\* response.specs of a 200 to listSpecs: up to MaxSpecs specs, each with its id
\* and its task counts
SpecLists ==
    UNION {{[i \in 1..n |-> [id |-> i, taskCounts |-> counts[i]]] :
               counts \in [1..n -> TaskCounts]} : n \in 0..MaxSpecs}

\* a filter that keeps the specs with a pending task only
filteredSpecsPendingOnly(specs, includeCompleted) ==
    IF includeCompleted = "true" THEN specs
    ELSE SelectSeq(specs, LAMBDA sp : sp.taskCounts.pending > 0)

\* filteredSpecs of handleListSpecs
filteredSpecs(specs, includeCompleted) ==
    IF includeCompleted = "true" THEN specs
    ELSE SelectSeq(specs, LAMBDA sp :
             sp.taskCounts.pending > 0 \/ sp.taskCounts.inProgress > 0)

\* the text handleListSpecs returns for the specs it shows
ListSpecsText(specs, includeCompleted) ==
    IF Len(filteredSpecs(specs, includeCompleted)) = 0
    THEN IF Len(specs) > 0 /\ includeCompleted # "true"
         THEN "All specs are completed"
         ELSE "No specs found"
    ELSE "Found"

\* client.listSpecs() resolves with `specs`: the scope is restored, the specs are
\* filtered, and the text lists the ones that remain
ListSpecsDone(rid, specs) ==
    /\ ~exited
    /\ rid \in DOMAIN calls
    /\ calls[rid].pc = "list"
    /\ calls[rid].tool = "list-specs"
    /\ LET call == calls[rid]
           cl == RestoreAfterSuccess(clients, call.client, call.orig)
       IN  /\ out' = [Result(call, ListSpecsText(specs, call.includeCompleted), FALSE, cl)
                        EXCEPT !.includeCompleted = call.includeCompleted,
                               !.specs = specs,
                               !.shown = filteredSpecs(specs, call.includeCompleted)]
           /\ calls' = Returned(call)
           /\ clients' = cl
           /\ backend' = {}
    /\ UNCHANGED <<env, mainPc, tasks, useStdio, httpServer, httpCloseCalls, stdioServer, sessions, servers,
                   transports, issued, destroyed, dels, stops, nReq, exited, exitCode>>

\* a handler that sends the request again when it failed
ReqDoneRetrying(rid, ans) ==
    /\ ~exited
    /\ rid \in DOMAIN calls
    /\ calls[rid].pc = "req"
    /\ LET call == calls[rid]
           outcome == RequestOutcome(ans)
       IN  IF outcome = "ok" THEN Return(call, "ok", FALSE, clients)
           ELSE /\ backend' = {RequestOf(clients, call, "getTask")}
                /\ out' = NoResponse
                /\ UNCHANGED <<clients, calls>>
    /\ UNCHANGED <<env, mainPc, tasks, useStdio, httpServer, httpCloseCalls, stdioServer, sessions, servers,
                   transports, issued, destroyed, dels, stops, nReq, exited, exitCode>>

\* the single proxy operation of the other handlers settles
ReqDone(rid, ans) ==
    /\ ~exited
    /\ rid \in DOMAIN calls
    /\ calls[rid].pc = "req"
    /\ LET call == calls[rid]
           outcome == RequestOutcome(ans)
       IN  IF outcome = "ok" THEN Return(call, "ok", FALSE, clients)
           ELSE Throw(call, MCPServerError(outcome), clients)
    /\ UNCHANGED <<env, mainPc, tasks, useStdio, httpServer, httpCloseCalls, stdioServer, sessions, servers,
                   transports, issued, destroyed, dels, stops, nReq, exited, exitCode>>

\* the proxy operations that change or need a task's status
TaskOps == {"startTask", "reportProgress", "completeTask"}

\* the codes by which the backend rejects an operation for the task's status
StateCodes == {"INVALID_STATE_TRANSITION", "TASK_ALREADY_IN_PROGRESS",
               "TASK_NOT_STARTED", "TASK_ALREADY_COMPLETED"}

\* does the backend accept `op` on a task of this status: a task must be
\* pending to be started, in-progress to report progress and to be completed
Accepts(status, op) ==
    CASE op = "startTask" -> status = "pending"
      [] op \in {"reportProgress", "completeTask"} -> status = "in-progress"
      [] OTHER -> TRUE

\* what the backend may answer to `op` on a task of this status
Serve(status, op) ==
    IF Accepts(status, op) THEN {Answer(200, "json", "")}
    ELSE {Answer(st, "json", c) : st \in {400, 409}, c \in StateCodes}

\* the status of the task once the backend has served `op`
Advance(status, op) ==
    IF ~Accepts(status, op) THEN status
    ELSE CASE op = "startTask" -> "in-progress"
           [] op = "completeTask" -> "done"
           [] OTHER -> status

\* the backend serves the request of a get-task, start-task, complete-task or
\* report-progress handler according to the task's status, and the handler
\* resumes from its await
TaskDone(rid, ans) ==
    /\ ~exited
    /\ rid \in DOMAIN calls
    /\ calls[rid].pc = "req"
    /\ \E b \in backend, t \in Tasks :
          /\ b.client = calls[rid].client
          /\ ans \in Serve(tasks[t], b.op)
          /\ tasks' = [tasks EXCEPT ![t] = Advance(tasks[t], b.op)]
    /\ LET call == calls[rid]
           outcome == RequestOutcome(ans)
       IN  IF outcome = "ok" THEN Return(call, "ok", FALSE, clients)
           ELSE Throw(call, MCPServerError(outcome), clients)
    /\ UNCHANGED <<env, mainPc, useStdio, httpServer, httpCloseCalls, stdioServer, sessions,
                   servers, transports, issued, destroyed, dels, stops, nReq, exited, exitCode>>

\* ------------------------------------------------------------------ HTTP adapter

\* the listening socket serves requests until it is closed; while it is closing
\* the connections that are still open can carry further requests
HttpOpen == ~exited /\ httpServer \in {"listening", "closing"}

\* POST /mcp: no API key, 401
PostUnauthorized(auth, xkey, sid) ==
    /\ HttpOpen
    /\ ~Truthy(extractApiKey(auth, xkey))
    /\ nReq' = nReq + 1
    /\ out' = [Response("POST", sid, 401, "Unauthorized") EXCEPT
                  !.noCred = (auth = NoAuth /\ xkey = Undef),
                  !.auth = auth, !.xkey = xkey,
                  !.registered = SessionsHas(sessions, sid)]
    /\ backend' = {}
    /\ UNCHANGED <<env, mainPc, tasks, useStdio, httpServer, httpCloseCalls, stdioServer, sessions, clients,
                   servers, transports, issued, destroyed, calls, dels, stops, exited, exitCode>>

\* POST /mcp without a registered session: a proxy, a server instance and a
\* transport are created and connected, and the transport handles the message.
\* An initialize message makes the transport generate its session identifier
\* and call onsessioninitialized; any other message is answered 400.
PostNew(auth, xkey, sid, initialize) ==
    /\ HttpOpen
    /\ Truthy(extractApiKey(auth, xkey))
    /\ ~(sid # NoSid /\ SessionsHas(sessions, sid))
    /\ LET n == Len(transports) + 1
           apiClient == NewClient(extractApiKey(auth, xkey), Undef)
       IN  /\ nReq' = nReq + 1
           /\ clients' = (n :> apiClient) @@ clients
           /\ servers' = (n :> createServerInstance(n)) @@ servers
           /\ IF initialize
              THEN \E newSessionId \in sessionIdGenerator :
                     /\ transports' = Append(transports,
                           [sessionId |-> newSessionId, closed |-> FALSE, server |-> n,
                            stream |-> FALSE])
                     /\ issued' = (newSessionId :> [proxy |-> n,
                                        apiKey |-> extractApiKey(auth, xkey)]) @@ issued
                     /\ sessions' = SessionsSet(sessions, newSessionId, SessionData(n))
                     /\ out' = [Response("POST", sid, 200, "initialized") EXCEPT
                                   !.created = n, !.newSid = newSessionId, !.transport = n,
                                   !.noCred = (auth = NoAuth /\ xkey = Undef),
                                   !.auth = auth, !.xkey = xkey]
              ELSE /\ transports' = Append(transports,
                           [sessionId |-> NoSid, closed |-> FALSE, server |-> n,
                            stream |-> FALSE])
                   /\ out' = [Response("POST", sid, 400, "Bad Request") EXCEPT
                                   !.created = n, !.transport = n,
                                   !.noCred = (auth = NoAuth /\ xkey = Undef),
                                   !.auth = auth, !.xkey = xkey]
                   /\ UNCHANGED <<issued, sessions>>
    /\ backend' = {}
    /\ UNCHANGED <<env, mainPc, tasks, useStdio, httpServer, httpCloseCalls, stdioServer, destroyed, calls,
                   dels, stops, exited, exitCode>>

\* POST /mcp naming a registered session, with a second initialize message:
\* the session's transport answers 400
PostReinitialize(sid) ==
    /\ HttpOpen
    /\ \E auth \in AuthHeaders, xkey \in XKeyHeaders : Truthy(extractApiKey(auth, xkey))
    /\ sid # NoSid /\ SessionsHas(sessions, sid)
    /\ nReq' = nReq + 1
    /\ out' = [Response("POST", sid, 400, "Bad Request") EXCEPT
                  !.registered = TRUE,
                  !.transport = SessionsGet(sessions, sid).transport]
    /\ backend' = {}
    /\ UNCHANGED <<env, mainPc, tasks, useStdio, httpServer, httpCloseCalls, stdioServer, sessions, clients,
                   servers, transports, issued, destroyed, calls, dels, stops, exited, exitCode>>

\* POST /mcp naming a registered session, with a tools/call message: the
\* session's transport hands it to the server connected to it, whose call-tool
\* handler runs handleToolCall on the proxy it was created with
PostTool(auth, xkey, sid, name, args) ==
    /\ HttpOpen
    /\ Truthy(extractApiKey(auth, xkey))
    /\ sid # NoSid /\ SessionsHas(sessions, sid)
    /\ LET sessionData == SessionsGet(sessions, sid)
           server == transports[sessionData.transport].server
       IN  handleToolCall(nReq + 1, "POST", sid, extractApiKey(auth, xkey),
                          servers[server].client, name, args)
    /\ nReq' = nReq + 1
    /\ UNCHANGED <<env, mainPc, tasks, useStdio, httpServer, httpCloseCalls, stdioServer, sessions, servers,
                   transports, issued, destroyed, dels, stops, exited, exitCode>>

\* GET /mcp
GetStream(sid) ==
    /\ HttpOpen
    /\ nReq' = nReq + 1
    /\ out' = IF SessionsHas(sessions, sid)
              THEN [Response("GET", sid, 200, "stream") EXCEPT
                       !.registered = TRUE,
                       !.transport = SessionsGet(sessions, sid).transport]
              ELSE Response("GET", sid, 400, "No active session")
    /\ transports' = IF SessionsHas(sessions, sid)
                     THEN [transports EXCEPT
                             ![SessionsGet(sessions, sid).transport].stream =
                                 ~transports[SessionsGet(sessions, sid).transport].closed]
                     ELSE transports
    /\ backend' = {}
    /\ UNCHANGED <<env, mainPc, tasks, useStdio, httpServer, httpCloseCalls, stdioServer, sessions, clients,
                   servers, issued, destroyed, calls, dels, stops, exited, exitCode>>

\* the client ends the stream a GET /mcp opened on transport t
StreamEnded(t) ==
    /\ ~exited
    /\ t \in DOMAIN transports
    /\ transports[t].stream
    /\ transports' = [transports EXCEPT ![t].stream = FALSE]
    /\ Quiet
    /\ UNCHANGED <<env, mainPc, tasks, useStdio, httpServer, httpCloseCalls, stdioServer, sessions, clients,
                   servers, issued, destroyed, calls, dels, stops, nReq, exited, exitCode>>

\* transport.close(): the transport is closed with the stream it holds, and its
\* onclose handler runs
TransportClose(tr, t) == [tr EXCEPT ![t].closed = TRUE, ![t].stream = FALSE]

\* a close that leaves the server instance open
ServerCloseSkipped(sv, s) == sv

\* server.close()
ServerClose(sv, s) == [sv EXCEPT ![s].closed = TRUE]

\* a DELETE /mcp that answers 404 for an identifier the registry does not hold
DeleteAbsentNotFound(sid) ==
    /\ HttpOpen
    /\ ~SessionsHas(sessions, sid)
    /\ nReq' = nReq + 1
    /\ out' = Response("DELETE", sid, 404, "")
    /\ backend' = {}
    /\ UNCHANGED <<env, mainPc, tasks, useStdio, httpServer, httpCloseCalls, stdioServer, sessions, clients,
                   servers, transports, issued, destroyed, calls, dels, stops, exited, exitCode>>

\* DELETE /mcp for an identifier the registry does not hold
DeleteAbsent(sid) ==
    /\ HttpOpen
    /\ ~SessionsHas(sessions, sid)
    /\ nReq' = nReq + 1
    /\ out' = Response("DELETE", sid, 204, "")
    /\ backend' = {}
    /\ UNCHANGED <<env, mainPc, tasks, useStdio, httpServer, httpCloseCalls, stdioServer, sessions, clients,
                   servers, transports, issued, destroyed, calls, dels, stops, exited, exitCode>>

\* DELETE /mcp for a registered session, up to `await sessionData.transport.close()`
DeleteBegin(sid) ==
    /\ HttpOpen
    /\ SessionsHas(sessions, sid)
    /\ LET sessionData == SessionsGet(sessions, sid)
       IN  /\ transports' = TransportClose(transports, sessionData.transport)
           /\ sessions' = OnClose(sessions, transports, sessionData.transport)
           /\ dels' = ((nReq + 1) :> [sid |-> sid, cur |-> sessionData, pc |-> "tclose"])
                      @@ dels
    /\ nReq' = nReq + 1
    /\ Quiet
    /\ UNCHANGED <<env, mainPc, tasks, useStdio, httpServer, httpCloseCalls, stdioServer, clients, servers,
                   issued, destroyed, calls, stops, exited, exitCode>>

\* ... up to `await sessionData.server.close()`
DeleteAfterTransportClose(rid) ==
    /\ ~exited
    /\ rid \in DOMAIN dels
    /\ dels[rid].pc = "tclose"
    /\ servers' = ServerClose(servers, dels[rid].cur.server)
    /\ dels' = [dels EXCEPT ![rid].pc = "sclose"]
    /\ Quiet
    /\ UNCHANGED <<env, mainPc, tasks, useStdio, httpServer, httpCloseCalls, stdioServer, sessions, clients,
                   transports, issued, destroyed, calls, stops, nReq, exited, exitCode>>

\* ... this.sessions.delete(sessionId); res.status(204).send()
DeleteAfterServerClose(rid) ==
    /\ ~exited
    /\ rid \in DOMAIN dels
    /\ dels[rid].pc = "sclose"
    /\ sessions' = SessionsDelete(sessions, dels[rid].sid)
    /\ destroyed' = destroyed \cup {dels[rid].sid}
    /\ dels' = [r \in DOMAIN dels \ {rid} |-> dels[r]]
    /\ out' = [Response("DELETE", dels[rid].sid, 204, "") EXCEPT
                  !.registered = TRUE, !.transport = dels[rid].cur.transport]
    /\ backend' = {}
    /\ UNCHANGED <<env, mainPc, tasks, useStdio, httpServer, httpCloseCalls, stdioServer, clients, servers,
                   transports, issued, calls, stops, nReq, exited, exitCode>>

\* a session's transport closes on its own: its onclose handler runs
TransportClosed(t) ==
    /\ ~exited
    /\ t \in DOMAIN transports
    /\ ~transports[t].closed
    /\ transports[t].sessionId # NoSid
    /\ transports' = TransportClose(transports, t)
    /\ sessions' = OnClose(sessions, transports, t)
    /\ destroyed' = destroyed \cup {transports[t].sessionId}
    /\ Quiet
    /\ UNCHANGED <<env, mainPc, tasks, useStdio, httpServer, httpCloseCalls, stdioServer, clients, servers,
                   issued, calls, dels, stops, nReq, exited, exitCode>>

\* ------------------------------------------------------------------ failing requests

\* POST /mcp naming a registered session whose transport.handleRequest throws:
\* the catch block answers 500
PostFailed(sid) ==
    /\ HttpOpen
    /\ \E auth \in AuthHeaders, xkey \in XKeyHeaders : Truthy(extractApiKey(auth, xkey))
    /\ sid # NoSid /\ SessionsHas(sessions, sid)
    /\ nReq' = nReq + 1
    /\ out' = [Response("POST", sid, 500, "Internal server error") EXCEPT
                  !.registered = TRUE,
                  !.transport = SessionsGet(sessions, sid).transport]
    /\ backend' = {}
    /\ UNCHANGED <<env, mainPc, tasks, useStdio, httpServer, httpCloseCalls, stdioServer, sessions, clients,
                   servers, transports, issued, destroyed, calls, dels, stops, exited, exitCode>>

\* a rejected promise of an async GET or DELETE handler, which has no try/catch:
\* Express 4 leaves it unhandled and Node terminates the process with code 1,
\* Express 5 passes it to its error handler, which answers 500
Rejected(method, sid, unhandled) ==
    IF unhandled
    THEN /\ exited' = TRUE
         /\ exitCode' = 1
         /\ out' = [Response(method, sid, 0, "unhandledRejection") EXCEPT
                       !.registered = TRUE]
    ELSE /\ out' = [Response(method, sid, 500, "Internal Server Error") EXCEPT
                       !.registered = TRUE]
         /\ UNCHANGED <<exited, exitCode>>

\* GET /mcp for a registered session whose transport.handleRequest throws
GetFailed(sid, unhandled) ==
    /\ HttpOpen
    /\ SessionsHas(sessions, sid)
    /\ nReq' = nReq + 1
    /\ Rejected("GET", sid, unhandled)
    /\ backend' = {}
    /\ UNCHANGED <<env, mainPc, tasks, useStdio, httpServer, httpCloseCalls, stdioServer, sessions, clients,
                   servers, transports, issued, destroyed, calls, dels, stops>>

\* DELETE /mcp for a registered session whose transport.close() throws
DeleteFailed(sid, unhandled) ==
    /\ HttpOpen
    /\ SessionsHas(sessions, sid)
    /\ nReq' = nReq + 1
    /\ Rejected("DELETE", sid, unhandled)
    /\ backend' = {}
    /\ UNCHANGED <<env, mainPc, tasks, useStdio, httpServer, httpCloseCalls, stdioServer, sessions, clients,
                   servers, transports, issued, destroyed, calls, dels, stops>>

\* DELETE /mcp whose sessionData.server.close() throws after the transport closed
DeleteServerCloseFailed(rid, unhandled) ==
    /\ ~exited
    /\ rid \in DOMAIN dels
    /\ dels[rid].pc = "tclose"
    /\ dels' = [r \in DOMAIN dels \ {rid} |-> dels[r]]
    /\ Rejected("DELETE", dels[rid].sid, unhandled)
    /\ backend' = {}
    /\ UNCHANGED <<env, mainPc, tasks, useStdio, httpServer, httpCloseCalls, stdioServer, sessions, clients,
                   servers, transports, issued, destroyed, calls, stops, nReq>>

\* ------------------------------------------------------------------ stdio adapter

\* a tools/call message on stdin: the stdio server's call-tool handler runs
\* handleToolCall on this.stdioApiClient
StdioTool(name, args) ==
    /\ ~exited
    /\ stdioServer = "connected"
    /\ handleToolCall(nReq + 1, "STDIO", NoSid, Undef, servers[0].client, name, args)
    /\ nReq' = nReq + 1
    /\ UNCHANGED <<env, mainPc, tasks, useStdio, httpServer, httpCloseCalls, stdioServer, sessions, servers,
                   transports, issued, destroyed, dels, stops, exited, exitCode>>

\* the call-tool handler around a handleToolCall that returns `text` or, when
\* error is not NoError, throws `error`
CallTool(name, args, text, error) ==
    /\ ~exited
    /\ stdioServer = "connected"
    /\ LET call == NewCall(nReq + 1, "STDIO", NoSid, Undef, servers[0].client, name, args)
       IN  out' = IF error = NoError
                  THEN Result(call, text, FALSE, clients)
                  ELSE Caught(call, error, clients)
    /\ backend' = {}
    /\ UNCHANGED <<env, mainPc, tasks, useStdio, httpServer, httpCloseCalls, stdioServer, sessions, clients,
                   servers, transports, issued, destroyed, calls, dels, stops, nReq,
                   exited, exitCode>>

\* getGitHubRepoFromWorkingDir(workingDir), which a list handler of a started
\* server calls, when the origin remote of workingDir is remoteUrl: null
\* without a URL, else parseGitRemoteUrl(remoteUrl)
getGitHubRepoFromWorkingDir(remoteUrl) ==
    /\ ~exited
    /\ stdioServer = "connected" \/ httpServer = "listening"
    /\ nReq' = nReq + 1
    /\ out' = [Response("GIT", NoSid, 0,
                         IF remoteUrl = <<>> THEN Null ELSE parseGitRemoteUrl(remoteUrl))
                  EXCEPT !.remoteUrl = remoteUrl]
    /\ backend' = {}
    /\ UNCHANGED <<env, mainPc, tasks, useStdio, httpServer, httpCloseCalls, stdioServer, sessions, clients,
                   servers, transports, issued, destroyed, calls, dels, stops,
                   exited, exitCode>>

\* ------------------------------------------------------------------ lifecycle

\* "signal" is SIGINT or SIGTERM: their handlers are the same
Signals == {"signal"}
StdinEvents == {"stdin-end", "stdin-error"}
\* "call" is a direct call of the public stop() method
Triggers == Signals \cup StdinEvents \cup {"call"}

\* loadConfig(): the Config, or the MCPServerError it throws
loadConfig(e) ==
    IF ~Truthy(e.apiKey) THEN MCPServerError("NOT_CONFIGURED")
    ELSE [kind |-> "config", apiKey |-> e.apiKey, projectId |-> e.projectId]

\* a main() that constructs the server whatever the environment holds
MainUnchecked ==
    /\ ~exited
    /\ mainPc = "main"
    /\ mainPc' = "constructed"
    /\ clients' = IF useStdio THEN (0 :> NewClient(env.apiKey, env.projectId)) ELSE clients
    /\ out' = NoResponse
    /\ backend' = {}
    /\ UNCHANGED <<env, tasks, useStdio, httpServer, httpCloseCalls, stdioServer, sessions,
                   servers, transports, issued, destroyed, calls, dels, stops, nReq,
                   exited, exitCode>>

\* main() of index.ts up to `await server.start()`: loadConfig() in stdio mode
\* and new MCPServer(config, options); what either throws is caught by main,
\* which calls process.exit(1)
Main ==
    /\ ~exited
    /\ mainPc = "main"
    /\ IF useStdio
       THEN LET config == loadConfig(env)
            IN  IF "kind" \notin DOMAIN config \/ ~Truthy(config.apiKey)
                THEN /\ mainPc' = "failed"
                     /\ exited' = TRUE
                     /\ exitCode' = 1
                     /\ out' = [Response("main", NoSid, 0, "Fatal error") EXCEPT
                                   !.thrown = MCPServerError("NOT_CONFIGURED")]
                     /\ UNCHANGED clients
                ELSE /\ mainPc' = "constructed"
                     /\ clients' = (0 :> NewClient(config.apiKey, config.projectId))
                     /\ out' = NoResponse
                     /\ UNCHANGED <<exited, exitCode>>
       ELSE /\ mainPc' = "constructed"
            /\ out' = NoResponse
            /\ UNCHANGED <<clients, exited, exitCode>>
    /\ backend' = {}
    /\ UNCHANGED <<env, tasks, useStdio, httpServer, httpCloseCalls, stdioServer, sessions,
                   servers, transports, issued, destroyed, calls, dels, stops, nReq>>

\* a start() that initializes both transports
StartBoth ==
    /\ ~exited
    /\ mainPc = "constructed"
    /\ httpServer = "none"
    /\ stdioServer = "none"
    /\ stdioServer' = "connected"
    /\ servers' = (0 :> createServerInstance(0)) @@ servers
    /\ httpServer' = "listening"
    /\ Quiet
    /\ UNCHANGED <<env, mainPc, tasks, useStdio, httpCloseCalls, sessions, clients, transports,
                   issued, destroyed, calls, dels, stops, nReq, exited, exitCode>>

\* start(): initializeStdioTransport or initializeHttpTransport
Start ==
    /\ ~exited
    /\ mainPc = "constructed"
    /\ httpServer = "none"
    /\ stdioServer = "none"
    /\ IF useStdio
       THEN /\ stdioServer' = "connected"
            /\ servers' = (0 :> createServerInstance(0)) @@ servers
            /\ UNCHANGED httpServer
       ELSE /\ httpServer' = "listening"
            /\ UNCHANGED <<stdioServer, servers>>
    /\ Quiet
    /\ UNCHANGED <<env, mainPc, tasks, useStdio, httpCloseCalls, sessions, clients, transports, issued, destroyed, calls,
                   dels, stops, nReq, exited, exitCode>>

\* what the handler of a trigger does once stop() has returned: process.exit(0),
\* process.exit(1), or nothing for a direct call
ExitOf(trigger) ==
    CASE trigger \in Signals \cup {"stdin-end"} -> 0
      [] trigger = "stdin-error" -> 1
      [] OTHER -> -1

\* a stop() invocation at its first statement; `error` is the call whose
\* failure entered the catch block, `overlap` tells that another invocation had
\* not returned yet, `active` counts the sessions registered at that moment,
\* `started` tells that start() had run
NewStop(trigger) ==
    [trigger |-> trigger, pc |-> "loop", cur |-> SessionData(0), last |-> 0,
     result |-> "pending", error |-> "none",
     overlap |-> \E j \in 1..Len(stops) : stops[j].pc # "done",
     active |-> Len(sessions),
     started |-> (httpServer # "none" \/ stdioServer # "none")]

\* a stop() whose catch block throws the error again
SettleRethrow(error) == IF error # "none" THEN "rejected" ELSE "resolved"

\* how the promise of stop() settles: the catch block logs and returns
Settle(error) == "resolved"

\* stop() returns, or one of its awaited calls throws into the catch block
Finished(stp, i, error) ==
    [stp EXCEPT ![i].pc = "done", ![i].result = Settle(error), ![i].error = error]

\* an iterator that counts positions instead, as over an array that is spliced
\* while it is walked: an entry that moved up into a visited position is skipped
RemainingByIndex(s, last) == SubSeq(s, last + 1, Len(s))

\* the Map iterator of `for (const [sessionId, sessionData] of this.sessions)`:
\* the entries after the last one visited, in insertion order
Remaining(s, last) == SelectSeq(s, LAMBDA e : e.transport > last)

\* stop() from `if (this.stdioServer)` to its next await
AfterHttp(stp, i, fails) ==
    IF stdioServer # "none"
    THEN IF fails
         THEN /\ stops' = Finished(stp, i, "stdioServer.close")
              /\ UNCHANGED <<stdioServer, servers>>
         ELSE /\ stdioServer' = "closed"
              /\ servers' = ServerClose(servers, 0)
              /\ stops' = [stp EXCEPT ![i].pc = "stdio"]
    ELSE /\ stops' = Finished(stp, i, "none")
         /\ UNCHANGED <<stdioServer, servers>>

\* stop() from `if (this.httpServer)` to its next await: close() reports a
\* failure to its callback, and the callback resolves the promise all the same
AfterLoop(stp, i, fails) ==
    IF httpServer # "none"
    THEN /\ httpCloseCalls' = httpCloseCalls + 1
         /\ stops' = [stp EXCEPT ![i].pc = "http"]
         /\ httpServer' = IF httpServer = "listening" THEN "closing" ELSE httpServer
         /\ UNCHANGED <<stdioServer, servers>>
    ELSE /\ AfterHttp(stp, i, fails)
         /\ UNCHANGED <<httpServer, httpCloseCalls>>

\* stop() from the head of its loop over the registry `s` to its next await
LoopHead(stp, i, s, fails) ==
    LET rest == Remaining(s, stp[i].last)
    IN  IF rest # <<>>
        THEN /\ IF fails
                THEN /\ stops' = Finished(stp, i, "transport.close")
                     /\ sessions' = s
                     /\ UNCHANGED transports
                ELSE /\ transports' = TransportClose(transports, rest[1].transport)
                     /\ sessions' = OnClose(s, transports, rest[1].transport)
                     /\ stops' = [stp EXCEPT ![i].pc = "tclose", ![i].cur = rest[1],
                                             ![i].last = rest[1].transport]
             /\ UNCHANGED <<httpServer, httpCloseCalls, stdioServer, servers>>
        ELSE /\ sessions' = s
             /\ AfterLoop(stp, i, fails)
             /\ UNCHANGED transports

\* SIGINT, SIGTERM, stdin end, stdin error or a direct call: stop() starts
StopBegin(trigger, fails) ==
    /\ ~exited
    /\ mainPc = "constructed"
    /\ trigger \in StdinEvents => stdioServer # "none"
    /\ LoopHead(Append(stops, NewStop(trigger)), Len(stops) + 1, sessions, fails)
    /\ Quiet
    /\ UNCHANGED <<env, mainPc, tasks, useStdio, clients, issued, destroyed, calls, dels, nReq, exited, exitCode>>

\* `await sessionData.transport.close()` resumes; sessionData.server.close()
StopAfterTransportClose(i, fails) ==
    /\ ~exited
    /\ i \in 1..Len(stops)
    /\ stops[i].pc = "tclose"
    /\ IF fails
       THEN /\ stops' = Finished(stops, i, "server.close")
            /\ UNCHANGED servers
       ELSE /\ servers' = ServerClose(servers, stops[i].cur.server)
            /\ stops' = [stops EXCEPT ![i].pc = "sclose"]
    /\ Quiet
    /\ UNCHANGED <<env, mainPc, tasks, useStdio, httpServer, httpCloseCalls, stdioServer, sessions, clients,
                   transports, issued, destroyed, calls, dels, nReq, exited, exitCode>>

\* `await sessionData.server.close()` resumes; this.sessions.delete(sessionId)
\* and the next iteration
StopAfterServerClose(i, fails) ==
    /\ ~exited
    /\ i \in 1..Len(stops)
    /\ stops[i].pc = "sclose"
    /\ destroyed' = destroyed \cup {stops[i].cur.sid}
    /\ LoopHead(stops, i, SessionsDelete(sessions, stops[i].cur.sid), fails)
    /\ Quiet
    /\ UNCHANGED <<env, mainPc, tasks, useStdio, clients, issued, calls, dels, nReq, exited, exitCode>>

\* the listening socket has no connection left: 'close' is emitted. An idle
\* connection ends by its keep-alive timeout; one that carries a stream stays
HttpClosed ==
    /\ ~exited
    /\ httpServer = "closing"
    /\ \A t \in DOMAIN transports : ~transports[t].stream
    /\ httpServer' = "closed"
    /\ Quiet
    /\ UNCHANGED <<env, mainPc, tasks, useStdio, httpCloseCalls, stdioServer, sessions, clients, servers,
                   transports, issued, destroyed, calls, dels, stops, nReq, exited, exitCode>>

\* the callback of this.httpServer.close() resolves the awaited promise
StopAfterHttpClose(i, fails) ==
    /\ ~exited
    /\ i \in 1..Len(stops)
    /\ stops[i].pc = "http"
    /\ httpServer = "closed"
    /\ AfterHttp(stops, i, fails)
    /\ Quiet
    /\ UNCHANGED <<env, mainPc, tasks, useStdio, httpServer, httpCloseCalls, sessions, clients, transports,
                   issued, destroyed, calls, dels, nReq, exited, exitCode>>

\* `await this.stdioServer.close()` resumes
StopAfterStdioClose(i) ==
    /\ ~exited
    /\ i \in 1..Len(stops)
    /\ stops[i].pc = "stdio"
    /\ stops' = Finished(stops, i, "none")
    /\ Quiet
    /\ UNCHANGED <<env, mainPc, tasks, useStdio, httpServer, httpCloseCalls, stdioServer, sessions, clients,
                   servers, transports, issued, destroyed, calls, dels, nReq, exited, exitCode>>

\* the handler that awaited stop() calls process.exit
Exit(i) ==
    /\ ~exited
    /\ i \in 1..Len(stops)
    /\ stops[i].pc = "done"
    /\ stops[i].result = "resolved"
    /\ ExitOf(stops[i].trigger) >= 0
    /\ exited' = TRUE
    /\ exitCode' = ExitOf(stops[i].trigger)
    /\ stops' = [stops EXCEPT ![i].pc = "exited"]
    /\ Quiet
    /\ UNCHANGED <<env, mainPc, tasks, useStdio, httpServer, httpCloseCalls, stdioServer, sessions, clients,
                   servers, transports, issued, destroyed, calls, dels, nReq>>

\* ------------------------------------------------------------------ specification

\* the state after `new MCPServer(config, options)`
Init ==
    /\ useStdio \in BOOLEAN
    /\ env \in IF useStdio
               THEN [apiKey : {"k1"}, projectId : {Undef, "p1"}]
               ELSE [apiKey : {Undef}, projectId : {Undef}]
    /\ mainPc = "constructed"
    /\ tasks = [t \in Tasks |-> "pending"]
    /\ httpServer = "none"
    /\ httpCloseCalls = 0
    /\ stdioServer = "none"
    /\ sessions = <<>>
    /\ clients = IF useStdio
                 THEN (0 :> NewClient(env.apiKey, env.projectId))
                 ELSE EmptyFn
    /\ servers = EmptyFn
    /\ transports = <<>>
    /\ issued = EmptyFn
    /\ destroyed = {}
    /\ calls = EmptyFn
    /\ dels = EmptyFn
    /\ stops = <<>>
    /\ nReq = 0
    /\ backend = {}
    /\ out = NoResponse
    /\ exited = FALSE
    /\ exitCode = 0

\* the state in which main() of index.ts begins
InitMain ==
    /\ useStdio \in BOOLEAN
    /\ env \in [apiKey : {Undef, "", "k1"}, projectId : {Undef, "p1"}]
    /\ mainPc = "main"
    /\ tasks = [t \in Tasks |-> "pending"]
    /\ httpServer = "none"
    /\ httpCloseCalls = 0
    /\ stdioServer = "none"
    /\ sessions = <<>>
    /\ clients = EmptyFn
    /\ servers = EmptyFn
    /\ transports = <<>>
    /\ issued = EmptyFn
    /\ destroyed = {}
    /\ calls = EmptyFn
    /\ dels = EmptyFn
    /\ stops = <<>>
    /\ nReq = 0
    /\ backend = {}
    /\ out = NoResponse
    /\ exited = FALSE
    /\ exitCode = 0

\* the session identifiers a client sends: those generated so far, one that was
\* never generated, or none
ClientSids == DOMAIN issued \cup sessionIdGenerator \cup {NoSid}

\* the Authorization headers of the POSTs that carry a tool call: none, or the
\* Bearer credential
ToolAuthHeaders == {NoAuth, [head |-> "Bearer ", tail |-> "k1"]}

\* the tool names a client sends
ClientTools == ToolNames \cup {"bogus-tool"}

\* one more inbound message is accepted in a run of at most n
Accept(n) == nReq < n

\* one more tool invocation may be in flight
Idle == Cardinality(DOMAIN calls) < MaxCalls

\* the steps that continue or follow a request on a session
SessionStep ==
    \/ \E rid \in 1..MaxReq : DeleteAfterTransportClose(rid)
    \/ \E rid \in 1..MaxReq : DeleteAfterServerClose(rid)
    \/ \E t \in 1..MaxReq : TransportClosed(t)
    \/ \E t \in 1..MaxReq : StreamEnded(t)

\* the steps of the tool handlers after their first await
HandlerStep ==
    \/ \E rid \in 1..MaxReq, repoFullName \in {Null, Repo} : GitDone(rid, repoFullName)
    \/ \E rid \in 1..MaxReq, ans \in BackendAnswers, project \in Projects :
          ByRepoDone(rid, ans, project)
    \/ \E rid \in 1..MaxReq, ans \in BackendAnswers : ListDone(rid, ans)
    \/ \E rid \in 1..MaxReq, ans \in BackendAnswers : ReqDone(rid, ans)

\* shutdown: the steps of stop() and of the handlers that call it
StopStep ==
    \/ \E trigger \in Triggers, fails \in BOOLEAN :
          Len(stops) < MaxStops /\ StopBegin(trigger, fails)
    \/ \E i \in 1..MaxStops, fails \in BOOLEAN : StopAfterTransportClose(i, fails)
    \/ \E i \in 1..MaxStops, fails \in BOOLEAN : StopAfterServerClose(i, fails)
    \/ HttpClosed
    \/ \E i \in 1..MaxStops, fails \in BOOLEAN : StopAfterHttpClose(i, fails)
    \/ \E i \in 1..MaxStops : StopAfterStdioClose(i)
    \/ \E i \in 1..MaxStops : Exit(i)

\* the gateway serving its clients
Next ==
    \/ Start
    \/ \E auth \in AuthHeaders, xkey \in XKeyHeaders, sid \in ClientSids :
          Accept(MaxReq) /\ PostUnauthorized(auth, xkey, sid)
    \/ \E auth \in AuthHeaders, xkey \in XKeyHeaders, sid \in ClientSids,
          initialize \in BOOLEAN :
          Accept(MaxReq) /\ PostNew(auth, xkey, sid, initialize)
    \/ \E sid \in ClientSids : Accept(MaxReq) /\ PostReinitialize(sid)
    \/ \E auth \in ToolAuthHeaders, xkey \in XKeyHeaders \ {""}, sid \in ClientSids,
          name \in ClientTools : \E args \in ArgsOf(name) :
          Accept(MaxReq) /\ Idle /\ PostTool(auth, xkey, sid, name, args)
    \/ \E sid \in ClientSids : Accept(MaxReq) /\ GetStream(sid)
    \/ \E sid \in ClientSids : Accept(MaxReq) /\ DeleteAbsent(sid)
    \/ \E sid \in ClientSids : Accept(MaxReq) /\ DeleteBegin(sid)
    \/ \E name \in ClientTools : \E args \in ArgsOf(name) :
          Accept(MaxReq) /\ Idle /\ StdioTool(name, args)
    \/ \E sid \in ClientSids : Accept(MaxReq) /\ PostFailed(sid)
    \/ \E sid \in ClientSids, unhandled \in BOOLEAN :
          Accept(MaxReq) /\ GetFailed(sid, unhandled)
    \/ \E sid \in ClientSids, unhandled \in BOOLEAN :
          Accept(MaxReq) /\ DeleteFailed(sid, unhandled)
    \/ \E rid \in 1..MaxReq, unhandled \in BOOLEAN :
          DeleteServerCloseFailed(rid, unhandled)
    \/ SessionStep
    \/ HandlerStep

Spec == Init /\ [][Next]_vars

\* the gateway shutting down while sessions are created and destroyed
\* the texts the handlers return
Texts == {"ok", "Found", "No project specified", "Could not detect git repository",
          "No project found linked to repository", "All specs are completed",
          "No specs found"}

\* enum ErrorCode
ErrorCodes == {"NOT_CONFIGURED", "UNAUTHORIZED", "TASK_NOT_FOUND", "PROJECT_NOT_FOUND",
               "INVALID_STATE_TRANSITION", "API_ERROR", "NETWORK_ERROR"}

\* the values handleToolCall may throw into the call-tool handler's catch block
Throwables ==
    {MCPServerError(code) : code \in ErrorCodes}
    \cup UNION {{ZodError(Issues(name, args)) :
                    args \in {a \in ArgsOf(name) : ~SchemaAccepts(name, a)}} :
                 name \in {"list-tasks", "complete-task"}}
    \cup {Error("Unknown tool: bogus-tool"), Error("boom")}
    \cup {NonError, Thrown("undefined", "", "", <<>>), Thrown("object", "", "message", <<>>)}

\* the call-tool handler alone, over every outcome of handleToolCall
NextCallTool ==
    \/ Start
    \/ \E name \in ClientTools, text \in Texts, error \in Throwables \cup {NoError} :
          CallTool(name, CHOOSE args \in ArgsOf(name) : TRUE, text, error)

SpecCallTool == Init /\ [][NextCallTool]_vars

NextShutdown ==
    \/ Start
    \/ \E auth \in AuthHeaders, xkey \in XKeyHeaders, sid \in ClientSids :
          Accept(MaxReqShutdown) /\ PostUnauthorized(auth, xkey, sid)
    \/ \E auth \in AuthHeaders, xkey \in XKeyHeaders, sid \in ClientSids,
          initialize \in BOOLEAN :
          Accept(MaxReqShutdown) /\ PostNew(auth, xkey, sid, initialize)
    \/ \E sid \in ClientSids : Accept(MaxReqShutdown) /\ PostReinitialize(sid)
    \/ \E auth \in AuthHeaders, sid \in ClientSids, name \in ClientTools :
          \E args \in ArgsOf(name) :
             Accept(MaxReqShutdown) /\ Idle /\ PostTool(auth, Undef, sid, name, args)
    \/ \E sid \in ClientSids : Accept(MaxReqShutdown) /\ GetStream(sid)
    \/ \E sid \in ClientSids : Accept(MaxReqShutdown) /\ DeleteAbsent(sid)
    \/ \E sid \in ClientSids : Accept(MaxReqShutdown) /\ DeleteBegin(sid)
    \/ SessionStep
    \/ HandlerStep
    \/ StopStep

SpecShutdown == Init /\ [][NextShutdown]_vars

\* the steps of stop() and of its callers that the event loop runs by itself,
\* once the awaited promise has settled
StopProgress ==
    \/ \E i \in 1..MaxStops, fails \in BOOLEAN : StopAfterTransportClose(i, fails)
    \/ \E i \in 1..MaxStops, fails \in BOOLEAN : StopAfterServerClose(i, fails)
    \/ HttpClosed
    \/ \E i \in 1..MaxStops, fails \in BOOLEAN : StopAfterHttpClose(i, fails)
    \/ \E i \in 1..MaxStops : StopAfterStdioClose(i)
    \/ \E i \in 1..MaxStops : Exit(i)

\* shutdown while clients open sessions and streams
NextLive ==
    \/ Start
    \/ \E auth \in AuthHeaders, xkey \in XKeyHeaders, sid \in ClientSids,
          initialize \in BOOLEAN :
          Accept(MaxReqLive) /\ PostNew(auth, xkey, sid, initialize)
    \/ \E sid \in ClientSids : Accept(MaxReqLive) /\ GetStream(sid)
    \/ \E t \in 1..MaxReqLive : StreamEnded(t)
    \/ StopStep

\* every step of stop() that is enabled is eventually taken; what the clients
\* and the operating system do is not forced
SpecLive == Init /\ [][NextLive]_vars /\ WF_vars(StopProgress)

\* the tools that call one task operation of the backend
TaskTools == {"get-task", "start-task", "complete-task", "report-progress"}

\* one client calling the task tools one after the other on stdin, against a
\* backend that enforces pending -> in-progress -> done
NextTasks ==
    \/ Start
    \/ \E name \in TaskTools : \E args \in ArgsOf(name) :
          Accept(MaxReqTasks) /\ calls = EmptyFn /\ StdioTool(name, args)
    \/ \E rid \in 1..MaxReqTasks, st \in {200, 400, 409}, c \in StateCodes \cup {""} :
          TaskDone(rid, Answer(st, "json", c))

SpecTasks == Init /\ [][NextTasks]_vars

\* the statuses of the backend's answers; 0 when the request fails below HTTP
Statuses == {200, 401, 403, 404, 409, 500, 0}

\* every answer of the backend: an object with or without a code under each
\* status, an unreadable body under each status, a null body under each
\* status that is not a success
AllAnswers ==
    {Answer(st, "json", c) :
        st \in Statuses,
        c \in {"", "TASK_NOT_FOUND", "PROJECT_NOT_FOUND", "INVALID_STATE_TRANSITION",
                "TASK_ALREADY_COMPLETED", "SOMETHING_ELSE"}}
    \cup {Answer(st, "unreadable", "") : st \in Statuses}
    \cup {Answer(st, "null", "") : st \in Statuses \ {200}}

\* list calls on stdin that find their project by the repository of workingDir
NextByRepo ==
    \/ Start
    \/ \E name \in ListTools : \E args \in ArgsOf(name) :
          Accept(MaxReqByRepo) /\ Idle /\ StdioTool(name, args)
    \/ \E rid \in 1..MaxReqByRepo, repoFullName \in {Null, Repo} : GitDone(rid, repoFullName)
    \/ \E rid \in 1..MaxReqByRepo, ans \in AllAnswers, project \in Projects :
          ByRepoDone(rid, ans, project)
    \/ \E rid \in 1..MaxReqByRepo, ans \in BackendAnswers : ListDone(rid, ans)

SpecByRepo == Init /\ [][NextByRepo]_vars

\* tool calls on stdin that make one request each, over every answer of the
\* backend
NextRequest ==
    \/ Start
    \/ \E name \in TaskTools \cup {"list-projects"} : \E args \in ArgsOf(name) :
          Accept(MaxReqRequest) /\ Idle /\ StdioTool(name, args)
    \/ \E rid \in 1..MaxReqRequest, repoFullName \in {Null, Repo} :
          GitDone(rid, repoFullName)
    \/ \E rid \in 1..MaxReqRequest, ans \in AllAnswers : ReqDone(rid, ans)

SpecRequest == Init /\ [][NextRequest]_vars

\* the arguments of the list-specs calls whose specs are looked at
ListSpecsArgs ==
    [projectId : {"p1"}, workingDir : {Undef}, includeCompleted : {Undef, "true", "false"}]

\* list-specs calls on stdin, over the lists of specs the backend returns
NextSpecs ==
    \/ Start
    \/ \E args \in ListSpecsArgs :
          Accept(MaxReqSpecs) /\ Idle /\ StdioTool("list-specs", args)
    \/ \E rid \in 1..MaxReqSpecs, specs \in SpecLists : ListSpecsDone(rid, specs)
    \/ \E rid \in 1..MaxReqSpecs, ans \in BackendAnswers \ {Answer(200, "json", "")} :
          ListDone(rid, ans)

SpecSpecs == Init /\ [][NextSpecs]_vars

\* two sessions and their list calls
NextPair ==
    \/ Start
    \/ \E xkey \in {"k2"}, auth \in ToolAuthHeaders :
          Accept(MaxReqPair) /\ Len(sessions) < 2 /\ PostNew(auth, xkey, NoSid, TRUE)
    \/ \E sid \in DOMAIN issued, name \in ListTools : \E args \in ArgsOf(name) :
          Accept(MaxReqPair) /\ Idle /\ PostTool(NoAuth, "k2", sid, name, args)
    \/ \E rid \in 1..MaxReqPair, repoFullName \in {Null, Repo} : GitDone(rid, repoFullName)
    \/ \E rid \in 1..MaxReqPair, ans \in BackendAnswers, project \in Projects :
          ByRepoDone(rid, ans, project)
    \/ \E rid \in 1..MaxReqPair, ans \in BackendAnswers : ListDone(rid, ans)

SpecPair == Init /\ [][NextPair]_vars

\* sessions are opened before shutdown, and destroyed by their clients or by
\* their transports at any moment of it; no close fails
NextDestroy ==
    \/ Start
    \/ \E xkey \in {"k2"} :
          Accept(MaxReqDestroy) /\ stops = <<>> /\ PostNew(NoAuth, xkey, NoSid, TRUE)
    \/ \E sid \in DOMAIN issued : Accept(MaxReqDestroy) /\ DeleteBegin(sid)
    \/ \E rid \in 1..MaxReqDestroy : DeleteAfterTransportClose(rid)
    \/ \E rid \in 1..MaxReqDestroy : DeleteAfterServerClose(rid)
    \/ \E t \in 1..MaxReqDestroy : TransportClosed(t)
    \/ \E trigger \in Triggers : stops = <<>> /\ StopBegin(trigger, FALSE)
    \/ \E i \in 1..MaxStops : StopAfterTransportClose(i, FALSE)
    \/ \E i \in 1..MaxStops : StopAfterServerClose(i, FALSE)
    \/ HttpClosed
    \/ \E i \in 1..MaxStops : StopAfterHttpClose(i, FALSE)
    \/ \E i \in 1..MaxStops : Exit(i)

SpecDestroy == Init /\ [][NextDestroy]_vars

\* two sessions, list calls on them, and their destruction while a call is in
\* flight
NextOrphan ==
    \/ Start
    \/ \E xkey \in {"k2"} :
          Accept(MaxReqOrphan) /\ Len(sessions) < 2 /\ PostNew(NoAuth, xkey, NoSid, TRUE)
    \/ \E sid \in DOMAIN issued, name \in ListTools : \E args \in ArgsOf(name) :
          Accept(MaxReqOrphan) /\ Idle /\ PostTool(NoAuth, "k2", sid, name, args)
    \/ \E sid \in DOMAIN issued : Accept(MaxReqOrphan) /\ DeleteBegin(sid)
    \/ \E rid \in 1..MaxReqOrphan : DeleteAfterTransportClose(rid)
    \/ \E rid \in 1..MaxReqOrphan : DeleteAfterServerClose(rid)
    \/ \E t \in 1..MaxReqOrphan : TransportClosed(t)
    \/ \E rid \in 1..MaxReqOrphan, repoFullName \in {Null, Repo} : GitDone(rid, repoFullName)
    \/ \E rid \in 1..MaxReqOrphan, ans \in BackendAnswers, project \in Projects :
          ByRepoDone(rid, ans, project)
    \/ \E rid \in 1..MaxReqOrphan, ans \in BackendAnswers : ListDone(rid, ans)

SpecOrphan == Init /\ [][NextOrphan]_vars

\* the repository of a working directory, over every remote URL
NextParse ==
    \/ Start
    \/ /\ Accept(MaxReqParse)
       /\ \E remoteUrl \in RemoteUrls : getGitHubRepoFromWorkingDir(remoteUrl)

SpecParse == Init /\ [][NextParse]_vars

\* the process from the start of main() of index.ts, serving stdin
NextMain ==
    \/ Main
    \/ Start
    \/ \E name \in ClientTools : \E args \in ArgsOf(name) :
          Accept(MaxReq) /\ Idle /\ StdioTool(name, args)
    \/ HandlerStep

SpecMain == InitMain /\ [][NextMain]_vars

\* ------------------------------------------------------------------ properties

\* the session record onsessioninitialized stored for the proxy n under id
RecordOf(n, id) == [SessionData(n) EXCEPT !.sid = id]

\* the last step accepted an inbound message
Accepted == nReq' = nReq + 1

\* C1: every backend request caused by a tool call of a POST naming session X
\* is sent by the proxy created with X and carries the credential X was created
\* with, and it is sent by no other session's proxy
CredentialIsolation ==
    \A r \in backend :
        r.sid # NoSid =>
            /\ r.sid \in DOMAIN issued
            /\ r.client = issued[r.sid].proxy
            /\ r.apiKey = issued[r.sid].apiKey
            /\ \A y \in DOMAIN issued \ {r.sid} : r.client # issued[y].proxy

\* two sessions hold different credentials and a request of one of them is sent
CredentialIsolationWitness ==
    \E r \in backend :
        /\ r.sid # NoSid
        /\ r.apiKey = issued[r.sid].apiKey
        /\ \E y \in DOMAIN issued : y # r.sid /\ issued[y].apiKey # r.apiKey

\* a lookup right after a session was initialized returns its record
LookupAfterInit ==
    out.newSid # NoSid =>
        /\ SessionsHas(sessions, out.newSid)
        /\ SessionsGet(sessions, out.newSid) = RecordOf(out.created, out.newSid)

\* a lookup of a destroyed session returns absent
LookupAfterDestroy == \A sid \in destroyed : ~SessionsHas(sessions, sid)

\* a POST accepted for a destroyed identifier is not handled by the session's
\* transport, and no tool invocation starts for it
NotHandledAfterDestroy ==
    /\ (Accepted /\ out'.method = "POST" /\ out'.sid \in destroyed) =>
           /\ ~out'.registered
           /\ out'.transport # issued[out'.sid].proxy
           /\ out'.client # issued[out'.sid].proxy
    /\ \A r \in DOMAIN calls' \ DOMAIN calls : calls'[r].sid \notin destroyed

\* C2: a lookup right after a session is initialized returns its record (same
\* transport, proxy and server); once the session is destroyed (DELETE, transport
\* closure or shutdown) a lookup returns absent and a later POST carrying the
\* identifier is not handled by the destroyed session
RegistryLookup ==
    /\ [](LookupAfterInit /\ LookupAfterDestroy)
    /\ [][NotHandledAfterDestroy]_vars

\* a POST carries the identifier of a session that shutdown destroyed
RegistryLookupWitness ==
    /\ out.method = "POST"
    /\ out.sid \in destroyed
    /\ out.created # 0
    /\ \E i \in 1..Len(stops) : stops[i].cur.sid = out.sid

\* the last step accepted a DELETE /mcp carrying the identifier sid
DeleteOf(sid) ==
    \/ out.method = "DELETE" /\ out.sid = sid
    \/ nReq \in DOMAIN dels /\ dels[nReq].sid = sid

\* C3: a DELETE /mcp for an identifier absent from the registry changes no
\* registry entry, closes nothing, raises nothing and answers 204
DeleteIdempotent ==
    [][\A sid \in SessionIds \cup {NoSid} :
          (Accepted /\ ~SessionsHas(sessions, sid) /\ DeleteOf(sid)') =>
              /\ out'.method = "DELETE"
              /\ out'.status = 204
              /\ UNCHANGED <<sessions, transports, servers, clients, dels, calls>>]_vars

\* the second DELETE for a session is answered 204
DeleteIdempotentWitness ==
    /\ out.method = "DELETE"
    /\ out.status = 204
    /\ ~out.registered
    /\ out.sid \in destroyed
    /\ sessions # <<>>

\* C4: a POST /mcp that names no registered session and has neither an
\* Authorization: Bearer credential nor an X-API-Key header is answered 401,
\* creates no proxy, server or transport, leaves the registry alone and sends
\* no backend request
UnauthorizedRejected ==
    [][(Accepted /\ out'.method = "POST" /\ out'.noCred /\ ~out'.registered) =>
          /\ out'.status = 401
          /\ out'.created = 0
          /\ backend' = {}
          /\ UNCHANGED <<sessions, clients, servers, transports, issued>>]_vars

\* such a POST is answered 401 while a session is registered
UnauthorizedRejectedWitness ==
    /\ out.method = "POST"
    /\ out.noCred
    /\ ~out.registered
    /\ out.status = 401
    /\ sessions # <<>>

\* C5: an invocation whose name is not a registered tool or whose arguments
\* fail the tool's schema starts no handler, sends no backend request, leaves
\* the proxy's scope alone and yields an error text
ValidateThenInvoke ==
    [][/\ \A r \in DOMAIN calls' \ DOMAIN calls : calls'[r].valid
       /\ (Accepted /\ out'.tool # "" /\ ~out'.valid) =>
              /\ out'.isError
              /\ out'.thrown.type \in {"ZodError", "Error"}
              /\ out'.body = formatError(out'.thrown)
              /\ backend' = {}
              /\ UNCHANGED <<clients, calls>>]_vars

\* an invocation with invalid arguments is answered while another one, on the
\* same proxy, is in flight
ValidateThenInvokeWitness ==
    /\ out.tool \in ListTools
    /\ ~out.valid
    /\ out.isError
    /\ \E r \in DOMAIN calls : calls[r].client = out.client

\* the last step returned from a list-tasks or list-specs invocation that
\* called the backend for the project out.proj
ListReturned == out.tool \in ListTools /\ out.valid /\ Truthy(out.proj)

\* C6: with scope A set, a list-tasks or list-specs invocation with an explicit
\* projectId B # A whose backend call fails leaves the scope equal to A, when no
\* other invocation on the proxy was in flight
ScopeRestoredOnFailure ==
    (/\ ListReturned
     /\ out.explicit
     /\ Truthy(out.orig)
     /\ out.proj # out.orig
     /\ out.isError
     /\ out.alone) => out.scopeAfter = out.orig

\* such an invocation failed and the scope is A
ScopeRestoredOnFailureWitness ==
    /\ ListReturned
    /\ out.explicit
    /\ Truthy(out.orig)
    /\ out.proj # out.orig
    /\ out.isError
    /\ out.alone
    /\ out.scopeAfter = out.orig

\* C7: with no scope set, once a list-tasks or list-specs invocation for an
\* explicit or auto-detected project B has finished, successfully or not, the
\* proxy has no scope again
ScopeClearedAgain ==
    (ListReturned /\ ~Truthy(out.orig) /\ out.alone) => ~Truthy(out.scopeAfter)

\* the stop() invocations that ran concurrently have returned, no close failed
StoppedTwice ==
    /\ ~useStdio
    /\ Len(stops) = MaxStops
    /\ \E i \in 1..Len(stops) : stops[i].overlap
    /\ \A i \in 1..Len(stops) :
          stops[i].pc \in {"done", "exited"} /\ stops[i].error = "none"

\* every session that was initialized is destroyed and out of the registry
AllDestroyed ==
    /\ sessions = <<>>
    /\ DOMAIN issued \subseteq destroyed
    /\ \A sid \in DOMAIN issued : transports[issued[sid].proxy].closed

\* C8: with several sessions active, when stop is triggered twice concurrently
\* every session is destroyed and the listening HTTP server is closed exactly
\* once
StopTwiceClosesOnce ==
    (StoppedTwice /\ stops[1].active >= 2) =>
        (AllDestroyed /\ httpCloseCalls = 1)

\* C9: the promise returned by stop() is never rejected
StopNeverRejects == \A i \in 1..Len(stops) : stops[i].result # "rejected"

\* a stop() that ran concurrently with another one returned after a close failed
StopNeverRejectsWitness ==
    \E i \in 1..Len(stops) :
        stops[i].overlap /\ stops[i].error # "none" /\ stops[i].result = "resolved"

\* C10: when the handler of a signal that arrived after start() exits the
\* process, the registry is empty, every session's transport is closed, and the
\* listening HTTP server or the stdio server is closed, unless it is the close
\* of the stdio server that failed
OrderlyExit ==
    \A i \in 1..Len(stops) :
        (/\ stops[i].pc = "exited"
         /\ stops[i].trigger \in Signals
         /\ stops[i].started
         /\ \A j \in 1..Len(stops) : stops[j].error # "stdioServer.close") =>
            /\ sessions = <<>>
            /\ \A sid \in DOMAIN issued : transports[issued[sid].proxy].closed
            /\ httpServer \in {"none", "closed"}
            /\ stdioServer \in {"none", "closed"}

\* ------------------------------------------------------------------ C11

\* the bodies by which a step shows that a request handler failed
FailureBodies == {"Internal server error", "Internal Server Error", "unhandledRejection"}

\* session `s` keeps its registry entry, its proxy and its scope in this step
SessionUntouched(s) ==
    /\ SessionsHas(sessions', s) = SessionsHas(sessions, s)
    /\ SessionsHas(sessions, s) => SessionsGet(sessions', s) = SessionsGet(sessions, s)
    /\ clients'[issued[s].proxy] = clients[issued[s].proxy]

\* C11: a failure raised while handling one session's POST, GET or DELETE /mcp
\* request neither terminates the process nor changes the registry entry, the
\* proxy or the scope of any other session
FailureContained ==
    [][out'.body \in FailureBodies =>
          /\ ~exited'
          /\ \A s \in DOMAIN issued \ {out'.sid} : SessionUntouched(s)]_vars
\* ------------------------------------------------------------------ C12

\* the types of thrown values that are Errors
ErrorTypes == {"MCPServerError", "ZodError", "Error"}

\* C12: every tool call yields one text result: the returned text, not marked
\* isError, when handleToolCall returns, and a text marked isError when it
\* throws, which names the code of an MCPServerError, lists the fields of a
\* validation error, and is the unknown-error message only for a thrown value
\* that is not an Error
CallToolResult ==
    out.tool # "" =>
        /\ out.status = 200
        /\ out.isError = (out.thrown # NoError)
        /\ out.thrown = NoError => out.body \in Texts
        /\ out.thrown.type = "MCPServerError" =>
               out.body = "Error [" \o out.thrown.code \o "]: " \o out.thrown.message
        /\ out.thrown.type = "ZodError" =>
               /\ out.thrown.issues # <<>>
               /\ out.body = "Validation error:" \o IssueLines(out.thrown.issues)
               /\ out.body # "Validation error:"
        /\ out.thrown.type = "Error" => out.body = "Error: " \o out.thrown.message
        /\ (out.body = "An unknown error occurred") =
               (out.thrown.type \notin ErrorTypes \cup {"none"})

\* a value that is not an Error was thrown and answered with the unknown-error text
CallToolResultWitness ==
    /\ out.tool # ""
    /\ out.isError
    /\ out.thrown = NonError
    /\ out.body = "An unknown error occurred"
\* ------------------------------------------------------------------ C13

\* the last step answered a POST that named no registered session
PostUnrecognized == Accepted /\ out'.method = "POST" /\ ~out'.registered

\* C13: the registry gains an entry only in a POST without a recognized session
\* id whose message initializes a session, under the identifier generated for
\* the transport created for it; any other message without a recognized
\* session id leaves the registry as it was
EntersByInitialize ==
    [][/\ \A i \in 1..Len(sessions') :
             ~SessionsHas(sessions, sessions'[i].sid) =>
                 /\ PostUnrecognized
                 /\ out'.body = "initialized"
                 /\ sessions'[i].sid = transports'[out'.transport].sessionId
                 /\ sessions'[i].sid \notin DOMAIN issued \cup {NoSid}
                 /\ sessions'[i] = RecordOf(out'.created, out'.newSid)
       /\ (PostUnrecognized /\ out'.body = "initialized") =>
             /\ SessionsHas(sessions', out'.newSid)
             /\ SessionsDelete(sessions', out'.newSid) = sessions
       /\ (PostUnrecognized /\ out'.body # "initialized") =>
             UNCHANGED <<sessions, issued>>]_vars

\* a message that initializes nothing, sent with a session id that is not
\* registered, was answered while another session was registered
EntersByInitializeWitness ==
    /\ out.method = "POST"
    /\ ~out.registered
    /\ out.sid # NoSid
    /\ out.status = 400
    /\ out.created # 0
    /\ sessions # <<>>
\* ------------------------------------------------------------------ C14

\* the registry holds an entry under the session identifier id
Registered(id) == \E i \in 1..Len(sessions) : sessions[i].sid = id

\* the proxy of the session registered under id
ProxyOf(id) == sessions[CHOOSE i \in 1..Len(sessions) : sessions[i].sid = id].apiClient

\* C14, as the claim states it: the authentication failure applies only to
\* messages that do not name a registered session
CredentialOnlyWithoutSession ==
    [][(Accepted /\ out'.method = "POST" /\ Registered(out'.sid)) =>
          out'.status # 401]_vars

\* C14, amended: the credential is extracted before the session lookup, so a
\* POST without a credential is answered 401 whether or not it names a
\* registered session; a POST with a credential that names a registered
\* session is handled by that session: nothing is created, the registry is
\* left alone and a tool call runs on the session's proxy
CredentialThenSession ==
    [][/\ (Accepted /\ out'.method = "POST" /\ out'.noCred) =>
             /\ out'.status = 401
             /\ UNCHANGED <<sessions, clients, servers, transports, issued, calls>>
       /\ (Accepted /\ out'.method = "POST" /\ Registered(out'.sid)
              /\ out'.status # 401) =>
             /\ out'.created = 0
             /\ UNCHANGED <<sessions, servers, transports, issued>>
             /\ out'.tool # "" => out'.client = ProxyOf(out'.sid)
       /\ \A r \in DOMAIN calls' \ DOMAIN calls :
             calls'[r].method = "POST" =>
                 /\ Registered(calls'[r].sid)
                 /\ calls'[r].client = ProxyOf(calls'[r].sid)
                 /\ UNCHANGED <<sessions, servers, transports, issued>>]_vars

\* a POST that names a registered session and has no credential was answered 401
CredentialThenSessionWitness ==
    /\ out.method = "POST"
    /\ out.noCred
    /\ out.registered
    /\ Registered(out.sid)
    /\ out.status = 401
\* ------------------------------------------------------------------ C15

\* C15: in stdio mode with no API key configured, loadConfig or the MCPServer
\* constructor fails with NOT_CONFIGURED before any proxy, server instance or
\* transport is created, no message is ever dispatched, and the process exits
\* with a non-zero code
MissingKeyIsFatal ==
    (useStdio /\ ~Truthy(env.apiKey)) =>
        /\ clients = EmptyFn
        /\ servers = EmptyFn
        /\ stdioServer = "none"
        /\ calls = EmptyFn
        /\ nReq = 0
        /\ backend = {}
        /\ mainPc \in {"main", "failed"}
        /\ mainPc = "failed" =>
               /\ exited
               /\ exitCode # 0
               /\ out.thrown = MCPServerError("NOT_CONFIGURED")

\* main() has failed on an empty SPECMANAGER_API_KEY
MissingKeyIsFatalWitness ==
    /\ useStdio
    /\ env.apiKey = ""
    /\ mainPc = "failed"
    /\ exited
    /\ exitCode = 1
\* ------------------------------------------------------------------ C16

\* the handler of a termination trigger has called stop()
Triggered(trigger) == \E i \in 1..Len(stops) : stops[i].trigger = trigger

\* C16: every termination trigger leads to shutdown followed by exit: once a
\* handler of SIGINT, SIGTERM, stdin end or stdin error has called stop(), the
\* process eventually exits, with the code of a trigger whose stop() has
\* completed
TriggerLeadsToExit ==
    /\ \A trigger \in Signals \cup StdinEvents : Triggered(trigger) ~> exited
    /\ [](exited => \E i \in 1..Len(stops) :
                       /\ stops[i].pc = "exited"
                       /\ stops[i].result = "resolved"
                       /\ exitCode = ExitOf(stops[i].trigger))
\* ------------------------------------------------------------------ C17

\* C17: an MCPServer has one transport adapter: the HTTP listener and the
\* stdio server never both exist; in stdio mode the registry stays empty and
\* every tool call runs on the one proxy the constructor built from the
\* configured credential and default project
OneAdapter ==
    /\ ~(httpServer # "none" /\ stdioServer # "none")
    /\ ~useStdio => stdioServer = "none" /\ 0 \notin DOMAIN clients
    /\ useStdio =>
          /\ httpServer = "none"
          /\ sessions = <<>>
          /\ issued = EmptyFn
          /\ transports = <<>>
          /\ DOMAIN clients \subseteq {0}
          /\ stdioServer # "none" => servers[0].client = 0
          /\ \A c \in DOMAIN clients : clients[c].apiKey = env.apiKey
          /\ (mainPc = "constructed" /\ nReq = 0) =>
                 clients[0] = NewClient(env.apiKey, env.projectId)
          /\ \A r \in DOMAIN calls : calls[r].client = 0 /\ calls[r].method = "STDIO"
          /\ out.tool # "" => out.client = 0 /\ out.method = "STDIO"
          /\ \A b \in backend : b.client = 0 /\ b.apiKey = env.apiKey

\* a tool call on stdin has sent a request to the backend with the configured
\* credential, for the configured default project
OneAdapterWitness ==
    /\ useStdio
    /\ stdioServer = "connected"
    /\ sessions = <<>>
    /\ Truthy(env.projectId)
    /\ \E b \in backend :
          b.client = 0 /\ b.apiKey = env.apiKey /\ b.project = env.projectId
\* ------------------------------------------------------------------ C18

\* the request of the tool call that returns in this step
Served(b) == b \in backend /\ b.op \in TaskOps /\ DOMAIN calls' # DOMAIN calls

\* C18: against a backend that enforces pending -> in-progress -> done,
\* start-task on a pending task returns a success text, report-progress on the
\* task then in progress returns a success text, and start-task on a task that
\* is no longer pending returns the error text of INVALID_STATE_TRANSITION;
\* the gateway sends every valid start-task, complete-task and
\* report-progress to the backend whatever the task's status is
ForwardedToBackend ==
    [][/\ \A b \in backend, t \in Tasks :
             Served(b) =>
                 /\ (b.op = "startTask" /\ tasks[t] = "pending") =>
                        ~out'.isError /\ tasks'[t] = "in-progress"
                 /\ (b.op = "reportProgress" /\ tasks[t] = "in-progress") =>
                        ~out'.isError /\ tasks'[t] = "in-progress"
                 /\ (b.op = "startTask" /\ tasks[t] # "pending") =>
                        /\ out'.isError
                        /\ out'.body = "Error [INVALID_STATE_TRANSITION]: message"
                        /\ tasks'[t] = tasks[t]
       /\ \A r \in DOMAIN calls' \ DOMAIN calls :
             (calls'[r].tool = "task" /\ calls'[r].valid) =>
                 \E b \in backend' : b.client = calls'[r].client
       /\ (Accepted /\ out'.tool = "task") => ~out'.valid]_vars

\* after a start-task and another call, a second start-task has been rejected
\* for the task in progress
ForwardedToBackendWitness ==
    /\ nReq >= 3
    /\ \A t \in Tasks : tasks[t] = "in-progress"
    /\ out.tool = "task"
    /\ out.isError
    /\ out.thrown = MCPServerError("INVALID_STATE_TRANSITION")
\* ------------------------------------------------------------------ C19

\* the proxy c has no project scope
Unscoped(c) == ~Truthy(clients[c].projectId)

\* C19: a list-tasks or list-specs call with no projectId and no workingDir,
\* on a proxy that has no scope, returns the 'No project specified' guidance
\* as a result that is not an error, sends no request to the backend and
\* leaves the proxy's scope unset; only a call with a workingDir goes on, to
\* detect the repository
NoProjectGuidance ==
    [][/\ (Accepted /\ out'.tool \in ListTools /\ out'.valid /\ ~out'.explicit
             /\ Unscoped(out'.client)) =>
              /\ out'.body = "No project specified"
              /\ ~out'.isError
              /\ out'.status = 200
              /\ backend' = {}
              /\ ~Truthy(out'.scopeAfter)
              /\ UNCHANGED <<clients, calls>>
       /\ \A r \in DOMAIN calls' \ DOMAIN calls :
             (calls'[r].tool \in ListTools /\ ~calls'[r].explicit
                /\ Unscoped(calls'[r].client)) =>
                 /\ calls'[r].pc = "git"
                 /\ backend' = {}
                 /\ UNCHANGED clients]_vars

\* a session's list call was answered with the guidance while the session's
\* proxy had no scope
NoProjectGuidanceWitness ==
    /\ out.tool \in ListTools
    /\ out.method = "POST"
    /\ out.valid
    /\ ~out.explicit
    /\ out.body = "No project specified"
    /\ ~out.isError
    /\ Unscoped(out.client)
    /\ calls = EmptyFn
\* ------------------------------------------------------------------ C20

\* what a handler does with the result of getProjectByRepo in the step that
\* resumes the call rid: it goes on with the project p, it answers that no
\* project is linked, or the error of kind `kind` reaches the call-tool handler
GoesOnWith(rid, p) ==
    \/ rid \in DOMAIN calls' /\ calls'[rid].pc = "list" /\ calls'[rid].projectId = p
    \/ rid \notin DOMAIN calls' /\ out'.proj = p
NoneLinked == out'.body = "No project found linked to repository" /\ ~out'.isError
Propagated(kind) == out'.isError /\ out'.thrown = MCPServerError(kind)

\* C20: getProjectByRepo returns the project when the request succeeds,
\* returns null exactly when the request fails with PROJECT_NOT_FOUND, and
\* throws every other failure (UNAUTHORIZED, TASK_NOT_FOUND,
\* INVALID_STATE_TRANSITION, API_ERROR, NETWORK_ERROR) as it is
NullOnlyWhenNotFound ==
    [][\A rid \in 1..MaxReqByRepo, ans \in AllAnswers, p \in Projects :
          ByRepoDone(rid, ans, p) =>
              LET kind == RequestOutcome(ans)
              IN  /\ kind = "ok" => GoesOnWith(rid, p) /\ ~NoneLinked
                  /\ NoneLinked <=> kind = "PROJECT_NOT_FOUND"
                  /\ kind \notin {"ok", "PROJECT_NOT_FOUND"} =>
                         /\ kind \in ErrorCodes
                         /\ Propagated(kind)]_vars

\* a getProjectByRepo that failed with UNAUTHORIZED has ended the list call
\* with that error
NullOnlyWhenNotFoundWitness ==
    /\ out.tool \in ListTools
    /\ out.valid
    /\ out.isError
    /\ out.thrown = MCPServerError("UNAUTHORIZED")
\* ------------------------------------------------------------------ C21

\* the request failed below HTTP, or its success body cannot be read
TransportFailure(ans) ==
    ans.status = 0 \/ (ans.status = 200 /\ ans.body = "unreadable")

\* the code the backend's answer carries, if its body is an object with one
CodeIn(ans) == IF ans.body = "json" THEN ans.code ELSE ""

\* the failure kind the claim gives to a failed request
KindOf(ans) ==
    IF TransportFailure(ans) THEN "NETWORK_ERROR"
    ELSE IF ans.status \in {401, 403} THEN "UNAUTHORIZED"
    ELSE IF CodeIn(ans) = "TASK_NOT_FOUND" THEN "TASK_NOT_FOUND"
    ELSE IF CodeIn(ans) = "PROJECT_NOT_FOUND" THEN "PROJECT_NOT_FOUND"
    ELSE IF CodeIn(ans) \in {"INVALID_STATE_TRANSITION", "TASK_ALREADY_IN_PROGRESS",
                             "TASK_NOT_STARTED", "TASK_ALREADY_COMPLETED"}
         THEN "INVALID_STATE_TRANSITION"
    ELSE "API_ERROR"

\* C21: a failed backend request fails with one failure kind: a transport
\* failure (an unreadable success body included) gives NETWORK_ERROR, HTTP 401
\* or 403 gives UNAUTHORIZED whatever the code, otherwise the codes
\* TASK_NOT_FOUND, PROJECT_NOT_FOUND and the four state-transition codes give
\* their kinds, and any other non-2xx gives API_ERROR
FailureKinds ==
    [][\A rid \in 1..MaxReqRequest, ans \in AllAnswers :
          ReqDone(rid, ans) =>
              IF ans.status = 200 /\ ~TransportFailure(ans)
              THEN ~out'.isError
              ELSE out'.isError /\ out'.thrown = MCPServerError(KindOf(ans))]_vars
\* ---------------------------------------------------------------------------
\* C22
\* ---------------------------------------------------------------------------

\* the invocation r begins a proxy operation in this step
Began(r) ==
    /\ r \in DOMAIN calls'
    /\ calls'[r].pc \in {"byRepo", "list", "req"}
    /\ (r \in DOMAIN calls => calls[r].pc # calls'[r].pc)

\* the operations an invocation at `pc` is waiting for
PendingOps(pc) ==
    CASE pc = "byRepo" -> {"getProjectByRepo"}
      [] pc = "list" -> {"listTasks", "listSpecs"}
      [] pc = "req" -> {"listProjects", "getTask", "startTask", "completeTask",
                        "reportProgress"}
      [] OTHER -> {}

\* a direct call of a list operation on proxy c
DirectCall(c) == [sid |-> NoSid, client |-> c]

\* C22: no retries. A step sends at most one request; an invocation that begins
\* a proxy operation sends exactly one request, for that operation, and a
\* request is sent by no other step; a list operation called on a proxy without
\* a scope sends none and fails with NOT_CONFIGURED, and with a scope sends
\* one; when a request has failed, the step that handles the failure sends
\* nothing and ends the invocation.
NoRetries ==
    [][/\ Cardinality(backend') <= 1
       /\ \A r \in 1..MaxReq :
             Began(r) => \E b \in backend' :
                            /\ backend' = {b}
                            /\ b.client = calls'[r].client
                            /\ b.op \in PendingOps(calls'[r].pc)
       /\ backend' # {} => \E r \in 1..MaxReq : Began(r)
       /\ \A c \in DOMAIN clients : \A op \in {"listTasks", "listSpecs"} :
             LET sent == Operation(clients, DirectCall(c), op)
             IN  IF Truthy(clients[c].projectId)
                 THEN Cardinality(sent.requests) = 1 /\ sent.error = NoError
                 ELSE sent.requests = {} /\ sent.error = MCPServerError("NOT_CONFIGURED")
       /\ \A rid \in 1..MaxReq, ans \in BackendAnswers :
             /\ RequestOutcome(ans) # "ok"
             /\ \/ ReqDone(rid, ans)
                \/ ListDone(rid, ans)
                \/ \E project \in Projects : ByRepoDone(rid, ans, project)
             => backend' = {} /\ rid \notin DOMAIN calls']_vars

\* a request has failed with the backend's 500, its invocation has ended with
\* the error, and nothing is sent, while a proxy without a scope exists
NoRetriesWitness ==
    /\ out.isError
    /\ out.thrown = MCPServerError("API_ERROR")
    /\ backend = {}
    /\ \E c \in DOMAIN clients : ~Truthy(clients[c].projectId)

\* ---------------------------------------------------------------------------
\* C23
\* ---------------------------------------------------------------------------

\* the invocation rid ends in this step with `text`, not marked as an error,
\* without a request and with every proxy's scope as it was
EndsWith(rid, text) ==
    /\ out'.body = text
    /\ ~out'.isError
    /\ out'.tool = calls[rid].tool
    /\ out'.scopeAfter = clients[calls[rid].client].projectId
    /\ backend' = {}
    /\ clients' = clients
    /\ rid \notin DOMAIN calls'

\* the invocation rid takes a step of its auto-detection
Detecting(rid) ==
    /\ rid \in DOMAIN calls'
    /\ calls'[rid].tool \in ListTools
    /\ calls'[rid].pc \in {"git", "byRepo"}
    /\ (rid \in DOMAIN calls => calls[rid].pc # calls'[rid].pc)

\* C23: auto-detection ends early without failing. When the working directory
\* of a list-tasks / list-specs invocation yields no repository, or the
\* repository is linked to no project (PROJECT_NOT_FOUND), the invocation
\* returns the explanatory text, not an error, sends nothing, and leaves the
\* scope of its proxy as it was; no step of the detection writes a scope or
\* calls listTasks / listSpecs.
EndsEarly ==
    [][\A rid \in 1..MaxReq :
          /\ (/\ rid \in DOMAIN calls
              /\ calls[rid].tool \in ListTools
              /\ GitDone(rid, Null))
             => EndsWith(rid, "Could not detect git repository")
          /\ \A ans \in BackendAnswers, project \in Projects :
                RequestOutcome(ans) = "PROJECT_NOT_FOUND" /\ ByRepoDone(rid, ans, project)
                => EndsWith(rid, "No project found linked to repository")
          /\ Detecting(rid)
             => /\ clients' = clients
                /\ \A b \in backend' : b.op \notin {"listTasks", "listSpecs"}]_vars

\* a list invocation on a proxy with a scope has ended because its repository
\* is linked to no project, and the scope is still set
EndsEarlyWitness ==
    /\ out.tool \in ListTools
    /\ out.body = "No project found linked to repository"
    /\ ~out.isError
    /\ Truthy(out.scopeAfter)

\* ---------------------------------------------------------------------------
\* C24
\* ---------------------------------------------------------------------------

\* the invocation r is suspended between overwriting the scope of its proxy and
\* restoring it
Overwriting(r) == r \in DOMAIN calls /\ calls[r].pc = "list"

\* the invocation r2 reads the scope of proxy c in this step and begins its own
\* save / overwrite / restore
SavesScope(r2, c) ==
    /\ r2 \in DOMAIN calls'
    /\ calls'[r2].client = c
    /\ calls'[r2].pc = "list"
    /\ (r2 \in DOMAIN calls => calls[r2].pc # "list")

\* C24: the invocations of one session are serialized with respect to the
\* scope: while an invocation is suspended between overwriting the scope and
\* restoring it, no other invocation on the same proxy reads the scope or
\* begins its own save / overwrite / restore.
ScopeSerialized ==
    [][\A r \in 1..MaxReq :
          Overwriting(r) =>
              \A r2 \in (1..MaxReq) \ {r} : ~SavesScope(r2, calls[r].client)]_vars

\* ---------------------------------------------------------------------------
\* C25
\* ---------------------------------------------------------------------------

\* the invocation r came in a POST whose credential is not the one its session
\* was created with
ForeignCredential(r) ==
    /\ r \in DOMAIN calls
    /\ calls[r].method = "POST"
    /\ calls[r].apiKey # issued[calls[r].sid].apiKey

\* C25: the credential of a proxy never changes after its construction, and a
\* POST that reuses a registered session is served with the credential the
\* session was created with, whatever credential the POST carries: its
\* invocation runs on the session's proxy, and every request it causes carries
\* the session's credential.
CredentialFixed ==
    [][/\ \A c \in DOMAIN clients :
             c \in DOMAIN clients' /\ clients'[c].apiKey = clients[c].apiKey
       /\ \A r \in DOMAIN calls' :
             calls'[r].method = "POST" =>
                 /\ calls'[r].client = issued'[calls'[r].sid].proxy
                 /\ clients'[calls'[r].client].apiKey = issued'[calls'[r].sid].apiKey
       /\ \A b \in backend' :
             b.sid # NoSid => b.apiKey = issued'[b.sid].apiKey]_vars

\* a request is sent with the credential of its session for an invocation whose
\* POST carried another credential
CredentialFixedWitness ==
    \E r \in DOMAIN calls :
        /\ ForeignCredential(r)
        /\ \E b \in backend :
              /\ b.sid = calls[r].sid
              /\ b.client = calls[r].client
              /\ b.apiKey = issued[b.sid].apiKey
              /\ b.apiKey # calls[r].apiKey

\* ---------------------------------------------------------------------------
\* C26
\* ---------------------------------------------------------------------------

\* the entry e holds one existing transport, the server instance connected to
\* it, and the proxy that server instance was created with
HoldsItsOwn(e) ==
    /\ e.transport \in DOMAIN transports
    /\ e.server \in DOMAIN servers
    /\ e.apiClient \in DOMAIN clients
    /\ transports[e.transport].server = e.server
    /\ transports[e.transport].sessionId = e.sid
    /\ servers[e.server].client = e.apiClient

\* C26: exclusive ownership. Each registry entry holds exactly one proxy, one
\* server instance and one transport, and no proxy, server instance or transport
\* belongs to two registry entries.
ExclusiveOwnership ==
    /\ \A i \in 1..Len(sessions) : HoldsItsOwn(sessions[i])
    /\ \A i, j \in 1..Len(sessions) :
          i # j => /\ sessions[i].sid # sessions[j].sid
                   /\ sessions[i].apiClient # sessions[j].apiClient
                   /\ sessions[i].server # sessions[j].server
                   /\ sessions[i].transport # sessions[j].transport

\* two sessions are registered, created with the same credential
ExclusiveOwnershipWitness ==
    /\ Len(sessions) >= 2
    /\ clients[sessions[1].apiClient].apiKey = clients[sessions[2].apiClient].apiKey

\* ---------------------------------------------------------------------------
\* C27
\* ---------------------------------------------------------------------------

\* the last step sent the 204 of a DELETE /mcp that named a registered session
DeleteAnswered ==
    out.method = "DELETE" /\ out.status = 204 /\ out.registered

\* C27: a DELETE /mcp naming a registered session releases its resources before
\* the response is sent: when the 204 is sent the session's transport is closed,
\* the server instance connected to it is closed, and the registry holds no
\* entry for the session.
ReleasedBeforeAnswer ==
    DeleteAnswered =>
        /\ transports[out.transport].closed
        /\ servers[transports[out.transport].server].closed
        /\ ~SessionsHas(sessions, out.sid)
        /\ \A i \in 1..Len(sessions) : sessions[i].transport # out.transport
        /\ out.sid \in destroyed

\* the 204 of a DELETE for a registered session is sent while another session
\* stays registered
ReleasedBeforeAnswerWitness ==
    /\ DeleteAnswered
    /\ Len(sessions) >= 1
    /\ ~transports[sessions[1].transport].closed

\* ---------------------------------------------------------------------------
\* C28
\* ---------------------------------------------------------------------------

\* the session identifiers of the registry s
Keys(s) == {s[i].sid : i \in 1..Len(s)}

\* the step is one of a GET /mcp or of a DELETE /mcp
GetOrDeleteStep ==
    \/ \E sid \in SessionIds \cup {NoSid} :
          \/ GetStream(sid)
          \/ DeleteAbsent(sid)
          \/ DeleteBegin(sid)
          \/ \E unhandled \in BOOLEAN : GetFailed(sid, unhandled) \/ DeleteFailed(sid, unhandled)
    \/ \E rid \in 1..MaxReq :
          \/ DeleteAfterTransportClose(rid)
          \/ DeleteAfterServerClose(rid)
          \/ \E unhandled \in BOOLEAN : DeleteServerCloseFailed(rid, unhandled)

\* C28: a GET /mcp is routed to the transport of the session its header names
\* and to no other; with a missing or unregistered identifier it is answered
\* 400, reaches no transport and creates no session; no step of a GET or of a
\* DELETE adds a registry entry, a proxy, a server instance or a transport.
GetRouted ==
    [][/\ \A sid \in SessionIds \cup {NoSid} :
             GetStream(sid) =>
                 IF sid \in Keys(sessions)
                 THEN /\ out'.status = 200
                      /\ out'.transport = issued[sid].proxy
                      /\ transports[out'.transport].sessionId = sid
                      /\ \A t \in DOMAIN transports :
                            t # out'.transport => transports'[t] = transports[t]
                 ELSE /\ out'.status = 400
                      /\ out'.body = "No active session"
                      /\ out'.transport = NoResponse.transport
                      /\ transports' = transports
       /\ GetOrDeleteStep =>
             /\ Keys(sessions') \subseteq Keys(sessions)
             /\ DOMAIN clients' = DOMAIN clients
             /\ DOMAIN servers' = DOMAIN servers
             /\ Len(transports') = Len(transports)
             /\ issued' = issued]_vars

\* with two sessions registered, a GET naming the first has opened a stream on
\* the first session's transport and none on the second's
GetRoutedWitness ==
    /\ Len(sessions) >= 2
    /\ out.method = "GET"
    /\ out.status = 200
    /\ out.sid = sessions[1].sid
    /\ transports[sessions[1].transport].stream
    /\ ~transports[sessions[2].transport].stream

\* ---------------------------------------------------------------------------
\* C29
\* ---------------------------------------------------------------------------

\* the four forms: https://github.com/owner/repo and git@github.com:owner/repo,
\* each with or without a final .git, where owner and repo hold no "/"
Supported(url) ==
    /\ Len(url) >= 4
    /\ url[1] \in {"https://github.com/", "git@github.com:"}
    /\ \E i \in 3..(Len(url) - 1) :
          /\ url[i] = "/"
          /\ \A j \in (2..Len(url)) \ {i} : NoSlash(url[j])

\* repo is what follows the host in url, without a final .git if it has one
OwnerRepoOf(url, repo) ==
    \/ repo = Join(Tail(url))
    \/ url[Len(url)] = ".git" /\ repo \o ".git" = Join(Tail(url))

\* the last step parsed a remote URL
Parsed == out.method = "GIT" /\ out.remoteUrl # <<>>

\* C29: parseGitRemoteUrl maps https://github.com/acme/widgets.git,
\* https://github.com/acme/widgets, git@github.com:acme/widgets.git and
\* git@github.com:acme/widgets to acme/widgets, likewise for every owner and
\* repository, and a URL of any other form to null.
ParsesSupportedFormsOnly ==
    Parsed =>
        /\ out.remoteUrl \in {<<"https://github.com/", "acme", "/", "widgets", ".git">>,
                              <<"https://github.com/", "acme", "/", "widgets">>,
                              <<"git@github.com:", "acme", "/", "widgets", ".git">>,
                              <<"git@github.com:", "acme", "/", "widgets">>}
           => out.body = "acme/widgets"
        /\ IF Supported(out.remoteUrl)
           THEN OwnerRepoOf(out.remoteUrl, out.body)
           ELSE out.body = Null

\* ---------------------------------------------------------------------------
\* C30
\* ---------------------------------------------------------------------------

\* the last step returned the result of a list-specs call that got its specs
SpecsListed ==
    /\ out.tool = "list-specs"
    /\ ~out.isError
    /\ out.body \in {"Found", "All specs are completed", "No specs found"}

\* the spec has at least one pending or in-progress task
Unfinished(sp) == sp.taskCounts.pending + sp.taskCounts.inProgress >= 1

\* the ids of the specs in the list
Ids(list) == {list[i].id : i \in 1..Len(list)}

\* C30: list-specs shows, when includeCompleted is false or omitted, exactly the
\* specs that have at least one pending or in-progress task, and with
\* includeCompleted true every spec the backend returned; when the backend
\* returned specs but all are filtered out, the result says that all specs are
\* completed, not that none were found.
ShowsUnfinishedSpecs ==
    SpecsListed =>
        /\ \A k \in 1..Len(out.shown) : out.shown[k] = out.specs[out.shown[k].id]
        /\ Cardinality(Ids(out.shown)) = Len(out.shown)
        /\ IF out.includeCompleted = "true"
           THEN Ids(out.shown) = Ids(out.specs)
           ELSE Ids(out.shown) = {i \in 1..Len(out.specs) : Unfinished(out.specs[i])}
        /\ (out.specs # <<>> /\ out.shown = <<>>) => out.body = "All specs are completed"
        /\ out.specs = <<>> => out.body = "No specs found"
        /\ out.shown # <<>> => out.body = "Found"

\* without includeCompleted, of two specs the one whose only open task is in
\* progress is shown and the one whose tasks are done is not
ShowsUnfinishedSpecsWitness ==
    /\ SpecsListed
    /\ out.includeCompleted = "false"
    /\ Len(out.specs) = 2
    /\ out.specs[1].taskCounts = [pending |-> 0, inProgress |-> 0, done |-> 1]
    /\ out.specs[2].taskCounts = [pending |-> 0, inProgress |-> 1, done |-> 0]
    /\ out.shown = <<out.specs[2]>>

\* ---------------------------------------------------------------------------
\* C31
\* ---------------------------------------------------------------------------

\* the transport t is held by a registry entry
Held(t) == \E i \in 1..Len(sessions) : sessions[i].transport = t

\* a DELETE /mcp or a stop() that took the transport t out of the registry has
\* not finished yet
BeingDestroyed(t) ==
    \/ \E r \in DOMAIN dels : dels[r].cur.transport = t
    \/ \E i \in 1..Len(stops) : stops[i].pc \notin {"done", "exited"}

\* C31: no instance is left behind. Between requests, every transport the HTTP
\* adapter created, and the server instance connected to it, is held by a
\* registry entry or closed, also when it was created for a message that did
\* not initialize a session.
NoInstanceLeftBehind ==
    \A t \in DOMAIN transports :
        (~Held(t) /\ ~BeingDestroyed(t)) =>
            /\ transports[t].closed
            /\ servers[transports[t].server].closed

\* ---------------------------------------------------------------------------
\* C32
\* ---------------------------------------------------------------------------

\* no invocation is in flight on the proxy c
Quiescent(c) == \A r \in DOMAIN calls : calls[r].client # c

\* C32: for a proxy with scope A (the stdio proxy, whose scope is the project of
\* the environment), once every list-tasks / list-specs invocation issued on
\* it has finished, alone or overlapping others at their backend awaits, the
\* scope of the proxy is A.
ScopeRestoredAfterOverlap ==
    (/\ useStdio
     /\ Truthy(env.projectId)
     /\ 0 \in DOMAIN clients
     /\ Quiescent(0)) => clients[0].projectId = env.projectId

\* ---------------------------------------------------------------------------
\* C33
\* ---------------------------------------------------------------------------

\* this step sends exactly one request, a list request for project p on proxy c
ListsOnly(c, p) ==
    \E b \in backend' :
        /\ backend' = {b}
        /\ b.client = c
        /\ b.op \in {"listTasks", "listSpecs"}
        /\ b.project = p

\* the invocation r goes, in this step, from resolving its project to awaiting
\* its list operation
StartsListing(r) ==
    /\ r \in DOMAIN calls'
    /\ calls'[r].pc = "list"
    /\ (r \in DOMAIN calls => calls[r].pc # "list")

\* C33: a list-tasks / list-specs invocation that resolved a project P, from
\* its explicit projectId or from the repository of its workingDir, sends its
\* list request for P and for no other project, whatever other invocations are
\* in flight on the same proxy.
ListsResolvedProject ==
    [][/\ \A r \in 1..MaxReq :
             StartsListing(r) =>
                 /\ ListsOnly(calls'[r].client, calls'[r].projectId)
                 /\ (r \in DOMAIN calls /\ calls[r].explicit)
                        => calls'[r].projectId = calls[r].projectId
       /\ \A rid \in 1..MaxReq, ans \in BackendAnswers, project \in Projects :
             (RequestOutcome(ans) = "ok" /\ ByRepoDone(rid, ans, project))
                 => ListsOnly(calls[rid].client, project)]_vars

\* a list request for p2 is sent for an invocation that started while another
\* invocation on the same proxy was suspended with the scope overwritten to p1
ListsResolvedProjectWitness ==
    \E r, r2 \in DOMAIN calls :
        /\ r # r2
        /\ calls[r].client = calls[r2].client
        /\ calls[r].pc = "list" /\ calls[r2].pc = "list"
        /\ calls[r2].projectId = "p1"
        /\ calls[r].orig = "p1"
        /\ calls[r].projectId = "p2"
        /\ \E b \in backend :
              /\ b.client = calls[r].client
              /\ b.op \in {"listTasks", "listSpecs"}
              /\ b.project = "p2"

\* ---------------------------------------------------------------------------
\* C34
\* ---------------------------------------------------------------------------

\* the invocation r takes a step: it starts, goes on after an await, or returns
Stepped(r) ==
    \/ r \in DOMAIN calls /\ (r \notin DOMAIN calls' \/ calls'[r].pc # calls[r].pc)
    \/ r \in DOMAIN calls' /\ r \notin DOMAIN calls

\* the proxy of the session the invocation r arrived on
OwnProxy(r) ==
    LET call == IF r \in DOMAIN calls THEN calls[r] ELSE calls'[r]
    IN  IF call.method = "POST" THEN issued[call.sid].proxy ELSE 0

\* C34: sessions are independent. A step changes the scope of a proxy only if
\* it is a step of an invocation that arrived on that proxy's own session, it
\* changes no credential, and a list invocation that succeeds with no other
\* invocation in flight on its own session leaves the scope it found,
\* whatever is in flight on other sessions.
SessionsIndependent ==
    [][/\ \A y \in DOMAIN clients :
             /\ y \in DOMAIN clients'
             /\ clients'[y].apiKey = clients[y].apiKey
             /\ clients'[y].projectId # clients[y].projectId
                    => \E r \in 1..MaxReqPair : Stepped(r) /\ OwnProxy(r) = y
       /\ (/\ out'.tool \in ListTools
           /\ out' # out
           /\ out'.alone
           /\ Truthy(out'.proj)
           /\ ~out'.isError)
          => IF Truthy(out'.orig) THEN out'.scopeAfter = out'.orig
             ELSE ~Truthy(out'.scopeAfter)
       /\ \A b \in backend' :
             b.sid # NoSid => /\ b.client = issued[b.sid].proxy
                              /\ b.apiKey = issued[b.sid].apiKey]_vars

\* an invocation on one session has returned while an invocation on another
\* session is suspended with its scope overwritten, and the scope of the first
\* session is not the overwritten one
SessionsIndependentWitness ==
    /\ out.tool \in ListTools
    /\ out.method = "POST"
    /\ Truthy(out.proj)
    /\ out.alone
    /\ ~out.isError
    /\ \E r \in DOMAIN calls :
          /\ calls[r].pc = "list"
          /\ calls[r].client # out.client
          /\ calls[r].sid # out.sid
          /\ Truthy(clients[calls[r].client].projectId)
          /\ clients[out.client].projectId # clients[calls[r].client].projectId

\* ------------------------------------------------------------------ C35

\* a DELETE /mcp that has removed its session has not answered yet
Deleting(sid) == \E r \in DOMAIN dels : dels[r].sid = sid

\* C35: destroying a session while shutdown iterates the registry is safe.
\* With no session opened after stop() began and no close failing, whatever
\* sessions a DELETE /mcp or a closing transport removed meanwhile, a stop()
\* of a started server that has returned went without an error, has closed the listening
\* HTTP server, the registry is empty, the transport of every session that
\* was registered is closed, and every such session is destroyed or in the
\* hands of the DELETE /mcp that removed it.
DestroyDuringStopSafe ==
    \A i \in 1..Len(stops) :
        (stops[i].started /\ stops[i].pc \in {"done", "exited"}) =>
            /\ stops[i].error = "none"
            /\ sessions = <<>>
            /\ httpServer = "closed"
            /\ \A sid \in DOMAIN issued :
                  /\ transports[issued[sid].proxy].closed
                  /\ sid \in destroyed \/ Deleting(sid)

\* stop() found two sessions and has returned after closing one of them, the
\* other one was removed by a DELETE /mcp that has not answered yet
DestroyDuringStopSafeWitness ==
    \E i \in 1..Len(stops), r \in DOMAIN dels :
        /\ stops[i].pc = "done"
        /\ stops[i].active = 2
        /\ stops[i].last # 0
        /\ stops[i].last # dels[r].cur.transport
        /\ servers[stops[i].cur.server].closed
        /\ sessions = <<>>

\* ------------------------------------------------------------------ C36

\* the invocation r arrived on a session that is out of the registry while r
\* awaits its list operation
Orphaned(r) ==
    /\ r \in DOMAIN calls
    /\ calls[r].method = "POST"
    /\ calls[r].pc = "list"
    /\ ~SessionsHas(sessions, calls[r].sid)

\* C36: destroying a session does not cancel work in flight. The next step of
\* an invocation whose session was removed from the registry while its list
\* request was at the backend is the completion of that request: the
\* invocation returns, the scope restore of its handler is applied to the
\* proxy of its own session (the saved scope, or the empty scope after a
\* success that had saved none), no other proxy changes, and the registry is
\* left as it was.
WorkSurvivesDestroy ==
    [][\A r \in 1..MaxReqOrphan :
          (Orphaned(r) /\ Stepped(r)) =>
              LET call == calls[r]
                  own == issued[call.sid].proxy
              IN  /\ r \notin DOMAIN calls'
                  /\ out'.method = "POST" /\ out'.sid = call.sid
                  /\ out'.client = own
                  /\ call.client = own
                  /\ clients'[own].projectId =
                        IF Truthy(call.orig) THEN call.orig
                        ELSE IF out'.isError THEN clients[own].projectId ELSE ""
                  /\ \A y \in DOMAIN clients \ {own} : clients'[y] = clients[y]
                  /\ DOMAIN clients' = DOMAIN clients
                  /\ sessions' = sessions]_vars

\* a list invocation has returned its tasks or specs for a session that is out
\* of the registry, another session is registered, and the proxy of the
\* destroyed session holds no scope again
WorkSurvivesDestroyWitness ==
    /\ out.method = "POST"
    /\ out.tool \in ListTools
    /\ out.body = "Found"
    /\ ~out.isError
    /\ out.sid # NoSid
    /\ ~SessionsHas(sessions, out.sid)
    /\ sessions # <<>>
    /\ Truthy(out.proj)
    /\ ~Truthy(clients[out.client].projectId)
    /\ \E r \in DOMAIN dels : dels[r].sid = out.sid

\* ------------------------------------------------------------------ C37

\* the Authorization header is `Bearer ` followed by a non-empty token
BearerToken(auth) == auth.head = "Bearer " /\ Truthy(auth.tail)

\* C37: either credential convention alone suffices. A POST /mcp that carries
\* a non-empty X-API-Key header, whatever its Authorization header, or an
\* Authorization header of `Bearer ` and a non-empty token, whatever its
\* X-API-Key header, is not answered 401; when it carries both and a proxy is
\* created for it, the credential of the proxy is the Bearer token.
EitherCredentialSuffices ==
    /\ (out.method = "POST" /\ (Truthy(out.xkey) \/ BearerToken(out.auth)))
           => out.status # 401
    /\ (/\ out.method = "POST"
        /\ out.created # 0
        /\ BearerToken(out.auth)
        /\ Truthy(out.xkey)) => clients[out.created].apiKey = out.auth.tail

\* a session was initialized by a POST that carried the Bearer token k1 and
\* the X-API-Key k2, and its proxy holds k1
EitherCredentialSufficesWitness ==
    /\ out.method = "POST"
    /\ out.status = 200
    /\ out.newSid # NoSid
    /\ out.auth = [head |-> "Bearer ", tail |-> "k1"]
    /\ out.xkey = "k2"
    /\ clients[out.created].apiKey = "k1"

====
